---- MODULE Spec2Model ----
(***************************************************************************)
(* Model of htm::Connections (src/src/htm/algorithms/Connections.cpp) and *)
(* of htm::SpatialPooler (src/src/htm/algorithms/SpatialPooler.cpp); the   *)
(* part on the pooler follows the part on Connections.                     *)
(*                                                                         *)
(* Conventions                                                             *)
(*  - Handles and vector indices are 1-based here: handle h of the code is *)
(*    h+1 in the model, so the order of handles is the code's order.       *)
(*  - A Permanence is an integer number of units of htm::Epsilon, the      *)
(*    resolution of the model; 1.0f is maxPermanence units (10000, so that *)
(*    the sums of squares of pruneSegment_ stay within TLC's integers).    *)
(*    Sums and differences are exact.                                      *)
(*  - std::map<CellIdx, vector<>> is a function whose DOMAIN is the set of *)
(*    keys present; operator[] inserts an empty vector, at() throws.       *)
(*  - Every public operation is one action: it runs the whole call on the  *)
(*    record `State` and stores the resulting record.                      *)
(***************************************************************************)
EXTENDS Integers, Sequences, FiniteSets, TLC

\* ---------------------------------------------------------------- bounds
NumCells == 1
NumCellsWide == 2
NumPresynFine == 3
MaxSynapsesFine == 3
NumPresyn == 2
MaxSegments == 2
MaxSynapses == 2
MaxPruned == 1

\* ------------------------------------------------------ program constants
Epsilon == 1
minPermanence == 0
maxPermanence == 10000
SynapseIdxRange == 65536

Cells == 1..NumCells
PresynCells == 1..NumPresyn

\* Permanence arguments offered to the operations: below range, on the
\* connected threshold, above range.
PermInputs == {-5000, 5000, 15000}
\* connectedThreshold arguments of the constructor.
ThresholdInputs == {5000}
\* <<increment, decrement, pruneZeroSynapses, segmentThreshold>> offered to
\* adaptSegment.
AdaptInputs ==
  {<<0, 0, FALSE, 0>>, <<5000, 5000, FALSE, 0>>, <<5000, 5000, TRUE, 0>>,
   <<5000, 5000, TRUE, 2>>}
\* delta offered to bumpSegment.
DeltaInputs == {-5000, 5000}
\* The permanences the exploration keeps: the bounds, the threshold argument
\* and the threshold as stored (one Epsilon below it).
PermGrid == {minPermanence, 5000 - Epsilon, 5000, maxPermanence}

VARIABLES
  cells_,                                 \* CellData::segments of every cell
  segments_,                              \* vector<SegmentData>
  destroyedSegments_,                     \* free-list of segment handles
  synapses_,                              \* vector<SynapseData>
  destroyedSynapses_,                     \* free-list of synapse handles
  potentialSynapsesForPresynapticCell_,
  potentialSegmentsForPresynapticCell_,
  connectedSynapsesForPresynapticCell_,
  connectedSegmentsForPresynapticCell_,
  connectedThreshold_,
  timeseries_,
  previousUpdates_,
  currentUpdates_,
  prunedSyns_,
  prunedSegs_,
  eventHandlers_,                         \* tokens of the subscribed handlers
  assertionsOn,                           \* the build defines NTA_ASSERTIONS_ON
  events,                                 \* events delivered by the last call
  failed,                                 \* the last call threw / aborted
  sp,                                     \* the SpatialPooler that owns the instance
  tm,                                     \* the TemporalMemory that owns the instance
  vm                                      \* a ValueMap

vars ==
  <<cells_, segments_, destroyedSegments_, synapses_, destroyedSynapses_,
    potentialSynapsesForPresynapticCell_, potentialSegmentsForPresynapticCell_,
    connectedSynapsesForPresynapticCell_, connectedSegmentsForPresynapticCell_,
    connectedThreshold_, timeseries_, previousUpdates_, currentUpdates_,
    prunedSyns_, prunedSegs_, eventHandlers_, assertionsOn, events, failed,
    sp, tm, vm>>

\* The instance as one record, as seen at the start of a public call; `ret`
\* is the value the call returns (0 for void), `failed` whether it threw.
State ==
  [ cells_ |-> cells_,
    segments_ |-> segments_,
    destroyedSegments_ |-> destroyedSegments_,
    synapses_ |-> synapses_,
    destroyedSynapses_ |-> destroyedSynapses_,
    potentialSynapsesForPresynapticCell_ |-> potentialSynapsesForPresynapticCell_,
    potentialSegmentsForPresynapticCell_ |-> potentialSegmentsForPresynapticCell_,
    connectedSynapsesForPresynapticCell_ |-> connectedSynapsesForPresynapticCell_,
    connectedSegmentsForPresynapticCell_ |-> connectedSegmentsForPresynapticCell_,
    connectedThreshold_ |-> connectedThreshold_,
    timeseries_ |-> timeseries_,
    previousUpdates_ |-> previousUpdates_,
    currentUpdates_ |-> currentUpdates_,
    prunedSyns_ |-> prunedSyns_,
    prunedSegs_ |-> prunedSegs_,
    eventHandlers_ |-> eventHandlers_,
    assertionsOn |-> assertionsOn,
    events |-> <<>>,
    ret |-> 0,
    failed |-> FALSE ]

\* The variables of the instance after a call that left it as record s.
SetConnections(s) ==
  /\ cells_' = s.cells_
  /\ segments_' = s.segments_
  /\ destroyedSegments_' = s.destroyedSegments_
  /\ synapses_' = s.synapses_
  /\ destroyedSynapses_' = s.destroyedSynapses_
  /\ potentialSynapsesForPresynapticCell_' = s.potentialSynapsesForPresynapticCell_
  /\ potentialSegmentsForPresynapticCell_' = s.potentialSegmentsForPresynapticCell_
  /\ connectedSynapsesForPresynapticCell_' = s.connectedSynapsesForPresynapticCell_
  /\ connectedSegmentsForPresynapticCell_' = s.connectedSegmentsForPresynapticCell_
  /\ connectedThreshold_' = s.connectedThreshold_
  /\ timeseries_' = s.timeseries_
  /\ previousUpdates_' = s.previousUpdates_
  /\ currentUpdates_' = s.currentUpdates_
  /\ prunedSyns_' = s.prunedSyns_
  /\ prunedSegs_' = s.prunedSegs_
  /\ eventHandlers_' = s.eventHandlers_
  /\ assertionsOn' = s.assertionsOn
  /\ events' = s.events
  /\ failed' = s.failed

\* The variables after a call on a Connections instance of its own, which
\* no SpatialPooler owns.
SetState(s) == SetConnections(s) /\ sp' = sp /\ tm' = tm /\ vm' = vm

\* ---------------------------------------------------------------- helpers
Last(q) == q[Len(q)]
PopBack(q) == SubSeq(q, 1, Len(q) - 1)
Min2(a, b) == IF a < b THEN a ELSE b
Max2(a, b) == IF a > b THEN a ELSE b
SeqToSet(q) == {q[i] : i \in 1..Len(q)}

\* std::map: count(), operator[], assignment through a reference, erase().
Has(map, c) == c \in DOMAIN map
Get(map, c) == IF c \in DOMAIN map THEN map[c] ELSE <<>>
Put(map, c, v) == [x \in (DOMAIN map) \cup {c} |-> IF x = c THEN v ELSE map[x]]
Erase(map, c) == [x \in (DOMAIN map) \ {c} |-> map[x]]

\* The token of a handler whose callbacks read the instance through its
\* accessors (dataForSynapse, synapsesForSegment, ...).
InspectingHandler == 2

\* What a callback can read of the instance while it runs.
Instance(s) == [s EXCEPT !.events = <<>>]

\* for (auto h : eventHandlers_) h.second->onX(...): one delivery per
\* handler, in the order of the tokens; the delivery to the inspecting
\* handler carries what it read.
Emit(s, e) ==
  IF InspectingHandler \notin s.eventHandlers_
    THEN [s EXCEPT !.events = @ \o [i \in 1..Cardinality(s.eventHandlers_) |-> e]]
    ELSE LET handler(i) ==
               CHOOSE h \in s.eventHandlers_ :
                 Cardinality({g \in s.eventHandlers_ : g < h}) = i - 1
             delivery(i) ==
               IF handler(i) = InspectingHandler
                 THEN e @@ [seen |-> Instance(s)]
                 ELSE e
         IN [s EXCEPT !.events =
               @ \o [i \in 1..Cardinality(s.eventHandlers_) |-> delivery(i)]]

\* Inline accessors of the class.
synapsesForSegment(s, segment) == s.segments_[segment].synapses
numSynapses(s, segment) == Len(s.segments_[segment].synapses)
segmentsForCell(s, cell) == s.cells_[cell]
numSegments(s, cell) == Len(s.cells_[cell])

\* The sentinel a destroyed slot is meant to carry: Permanence -1.
DestroyedPermanence == 0 - maxPermanence


\* ------------------------------------------------------- Connections core

\* Connections::subscribe: the handler is kept under a fresh token.
subscribe(s, token) == [s EXCEPT !.eventHandlers_ = @ \cup {token}]

\* A variant of removeSynapseFromPresynapticMap_ that moves the last entry
\* over the removed one without recording the new index in the moved synapse.
removeWithoutReindex_(s, index, connected, presyn) ==
  LET preSynapses == IF connected
                       THEN s.connectedSynapsesForPresynapticCell_[presyn]
                       ELSE s.potentialSynapsesForPresynapticCell_[presyn]
      preSegments == IF connected
                       THEN s.connectedSegmentsForPresynapticCell_[presyn]
                       ELSE s.potentialSegmentsForPresynapticCell_[presyn]
      newSyn == PopBack([preSynapses EXCEPT ![index] = Last(preSynapses)])
      newSeg == PopBack([preSegments EXCEPT ![index] = Last(preSegments)])
  IN IF connected
       THEN [s EXCEPT !.connectedSynapsesForPresynapticCell_[presyn] = newSyn,
                      !.connectedSegmentsForPresynapticCell_[presyn] = newSeg]
       ELSE [s EXCEPT !.potentialSynapsesForPresynapticCell_[presyn] = newSyn,
                      !.potentialSegmentsForPresynapticCell_[presyn] = newSeg]

\* Connections::removeSynapseFromPresynapticMap_ (swap with last, pop).
\* `connected` selects the pair of vectors the caller passes by reference.
removeSynapseFromPresynapticMap_(s, index, connected, presyn) ==
  LET preSynapses == IF connected
                       THEN s.connectedSynapsesForPresynapticCell_[presyn]
                       ELSE s.potentialSynapsesForPresynapticCell_[presyn]
      preSegments == IF connected
                       THEN s.connectedSegmentsForPresynapticCell_[presyn]
                       ELSE s.potentialSegmentsForPresynapticCell_[presyn]
      move   == Last(preSynapses)
      newSyn == PopBack([preSynapses EXCEPT ![index] = move])
      newSeg == PopBack([preSegments EXCEPT ![index] = Last(preSegments)])
  IN IF connected
       THEN [s EXCEPT !.synapses_[move].presynapticMapIndex_ = index,
                      !.connectedSynapsesForPresynapticCell_[presyn] = newSyn,
                      !.connectedSegmentsForPresynapticCell_[presyn] = newSeg]
       ELSE [s EXCEPT !.synapses_[move].presynapticMapIndex_ = index,
                      !.potentialSynapsesForPresynapticCell_[presyn] = newSyn,
                      !.potentialSegmentsForPresynapticCell_[presyn] = newSeg]

\* A variant of clamp_ that forgets the upper bound.
clampBelowOnly_(permanence) == Max2(permanence, minPermanence)

\* permanence = std::min(permanence, maxPermanence);
\* permanence = std::max(permanence, minPermanence);
clamp_(permanence) == Max2(Min2(permanence, maxPermanence), minPermanence)

\* A variant of stepNumConnected_ that forgets to count down.
stepNumConnectedUpOnly_(numConnected, up) ==
  IF up THEN (numConnected + 1) % SynapseIdxRange ELSE numConnected

\* segmentData.numConnected++ and segmentData.numConnected-- on a SynapseIdx.
stepNumConnected_(numConnected, up) ==
  (IF up THEN numConnected + 1 ELSE numConnected - 1) % SynapseIdxRange

\* Connections::updateSynapsePermanence.
updateSynapsePermanence(s, synapse, permanence) ==
  LET p       == clamp_(permanence)
      synData == s.synapses_[synapse]
      before  == synData.permanence >= s.connectedThreshold_
      after   == p >= s.connectedThreshold_
      presyn  == synData.presynapticCell
      segment == synData.segment
      \* synData.permanence = permanence; the four references taken with
      \* operator[] insert missing keys; numConnected++ or numConnected--
      counted ==
        [s EXCEPT
           !.synapses_[synapse].permanence = p,
           !.potentialSynapsesForPresynapticCell_ = Put(@, presyn, Get(@, presyn)),
           !.potentialSegmentsForPresynapticCell_ = Put(@, presyn, Get(@, presyn)),
           !.connectedSynapsesForPresynapticCell_ = Put(@, presyn, Get(@, presyn)),
           !.connectedSegmentsForPresynapticCell_ = Put(@, presyn, Get(@, presyn)),
           !.segments_[segment].numConnected = stepNumConnected_(@, after)]
      \* the synapse goes to the back of the other pair of vectors
      pushBack(t) ==
        IF after
          THEN [t EXCEPT
                  !.synapses_[synapse].presynapticMapIndex_ =
                     Len(t.connectedSynapsesForPresynapticCell_[presyn]) + 1,
                  !.connectedSynapsesForPresynapticCell_[presyn] = Append(@, synapse),
                  !.connectedSegmentsForPresynapticCell_[presyn] = Append(@, segment)]
          ELSE [t EXCEPT
                  !.synapses_[synapse].presynapticMapIndex_ =
                     Len(t.potentialSynapsesForPresynapticCell_[presyn]) + 1,
                  !.potentialSynapsesForPresynapticCell_[presyn] = Append(@, synapse),
                  !.potentialSegmentsForPresynapticCell_[presyn] = Append(@, segment)]
  IN IF before = after THEN [s EXCEPT !.synapses_[synapse].permanence = p]
     ELSE Emit(pushBack(removeSynapseFromPresynapticMap_(
                 counted, synData.presynapticMapIndex_, ~after, presyn)),
               [type |-> "onUpdateSynapsePermanence", id |-> synapse, permanence |-> p])

\* Connections::synapseExists_: the value it returns.  With
\* NTA_ASSERTIONS_ON the slow search is always used.
synapseExists_(s, synapse, fast) ==
  IF synapse > Len(s.synapses_) THEN FALSE
  ELSE IF s.assertionsOn \/ ~fast
    THEN synapse \in SeqToSet(s.segments_[s.synapses_[synapse].segment].synapses)
    ELSE s.synapses_[synapse].permanence # DestroyedPermanence

\* Connections::synapseExists_: whether its NTA_ASSERT fails (it throws).
synapseExistsThrows_(s, synapse) ==
  /\ s.assertionsOn
  /\ synapse <= Len(s.synapses_)
  /\ LET found   == synapse \in SeqToSet(s.segments_[s.synapses_[synapse].segment].synapses)
         removed == s.synapses_[synapse].permanence = DestroyedPermanence
     IN ~((removed /\ ~found) \/ (~removed /\ found))

\* A variant of removeFromSegmentList_ that pops the back of the list
\* without first moving it over the synapse being removed.
popWithoutSwap_(synapses, synapse) ==
  IF synapse \in SeqToSet(synapses) THEN PopBack(synapses) ELSE synapses

\* The loop of destroySynapse over segmentData.synapses: swap with last, pop.
removeFromSegmentList_(synapses, synapse) ==
  LET at == {i \in 1..Len(synapses) : synapses[i] = synapse}
  IN IF at = {} THEN synapses
     ELSE LET i == CHOOSE j \in at : \A k \in at : j <= k
          IN PopBack([synapses EXCEPT ![i] = Last(synapses)])

\* Connections::destroySynapse.  On a live synapse the index it passes to
\* removeSynapseFromPresynapticMap_ is inside the vector.  On a destroyed one
\* it may lie outside (undefined behaviour); `ub` is what the build then
\* does: "crash", or "stray" (the two stores land behind the vectors, the
\* pop_back calls shrink them; nothing is popped from an empty vector).
destroySynapse(s, synapse, ub) ==
  IF synapseExistsThrows_(s, synapse) THEN [s EXCEPT !.failed = TRUE]
  ELSE IF ~synapseExists_(s, synapse, TRUE) THEN s
  ELSE
    LET synapseData == s.synapses_[synapse]
        segment     == synapseData.segment
        presynCell  == synapseData.presynapticCell
        index       == synapseData.presynapticMapIndex_
        connected   == synapseData.permanence >= s.connectedThreshold_
        synMap == IF connected THEN s.connectedSynapsesForPresynapticCell_
                  ELSE s.potentialSynapsesForPresynapticCell_
        segMap == IF connected THEN s.connectedSegmentsForPresynapticCell_
                  ELSE s.potentialSegmentsForPresynapticCell_
        \* map.at(presynCell) throws std::out_of_range on a missing key
        atThrows == ~Has(synMap, presynCell) \/ ~Has(segMap, presynCell)
        outside  == index > Len(synMap[presynCell])
        \* the event, then segmentData.numConnected-- of a connected synapse
        counted ==
          [Emit(s, [type |-> "onDestroySynapse", id |-> synapse]) EXCEPT
             !.segments_[segment].numConnected =
                IF connected THEN stepNumConnected_(@, FALSE) ELSE @]
        stray(t) ==
          IF Len(synMap[presynCell]) = 0 THEN t
          ELSE IF connected
            THEN [t EXCEPT
                    !.synapses_[Last(synMap[presynCell])].presynapticMapIndex_ = index,
                    !.connectedSynapsesForPresynapticCell_[presynCell] = PopBack(@),
                    !.connectedSegmentsForPresynapticCell_[presynCell] = PopBack(@)]
            ELSE [t EXCEPT
                    !.synapses_[Last(synMap[presynCell])].presynapticMapIndex_ = index,
                    !.potentialSynapsesForPresynapticCell_[presynCell] = PopBack(@),
                    !.potentialSegmentsForPresynapticCell_[presynCell] = PopBack(@)]
        \* if (map.at(presynCell).empty()) erase the key from both maps
        eraseEmpty(t) ==
          IF connected
            THEN IF Len(t.connectedSynapsesForPresynapticCell_[presynCell]) # 0 THEN t
                 ELSE [t EXCEPT
                         !.connectedSynapsesForPresynapticCell_ = Erase(@, presynCell),
                         !.connectedSegmentsForPresynapticCell_ = Erase(@, presynCell)]
            ELSE IF Len(t.potentialSynapsesForPresynapticCell_[presynCell]) # 0 THEN t
                 ELSE [t EXCEPT
                         !.potentialSynapsesForPresynapticCell_ = Erase(@, presynCell),
                         !.potentialSegmentsForPresynapticCell_ = Erase(@, presynCell)]
        \* the loop over segmentData.synapses, destroyedSynapses_.push_back
        release(t) ==
          [t EXCEPT !.segments_[segment].synapses = removeFromSegmentList_(@, synapse),
                    !.destroyedSynapses_ = Append(@, synapse)]
    IN IF atThrows THEN [counted EXCEPT !.failed = TRUE]
       ELSE IF ~outside
         THEN release(eraseEmpty(
                removeSynapseFromPresynapticMap_(counted, index, connected, presynCell)))
       ELSE IF s.assertionsOn \/ ub = "crash" THEN [counted EXCEPT !.failed = TRUE]
       ELSE release(eraseEmpty(stray(counted)))

\* The while loop of destroySegment: destroy the synapses from the back.
RECURSIVE destroySynapsesOfSegment_(_, _)
destroySynapsesOfSegment_(s, segment) ==
  IF s.failed \/ Len(s.segments_[segment].synapses) = 0 THEN s
  ELSE destroySynapsesOfSegment_(
         destroySynapse(s, Last(s.segments_[segment].synapses), "crash"), segment)

\* std::vector::erase(std::find(...)) on the cell's segment list.
eraseFirst_(q, x) ==
  LET at == {i \in 1..Len(q) : q[i] = x}
  IN IF at = {} THEN q
     ELSE LET i == CHOOSE j \in at : \A k \in at : j <= k
          IN SubSeq(q, 1, i - 1) \o SubSeq(q, i + 1, Len(q))

\* A variant of destroySegment that does not put the handle on the
\* free-list.
destroySegmentLeaking_(s, segment) ==
  LET release(t) ==
        IF t.failed THEN t
        ELSE [t EXCEPT !.cells_[t.segments_[segment].cell] = eraseFirst_(@, segment)]
  IN release(destroySynapsesOfSegment_(
               Emit(s, [type |-> "onDestroySegment", id |-> segment]), segment))

\* Connections::destroySegment.
destroySegment(s, segment) ==
  LET \* cellData.segments.erase(segmentOnCell); destroyedSegments_.push_back
      release(t) ==
        IF t.failed THEN t
        ELSE [t EXCEPT !.cells_[t.segments_[segment].cell] = eraseFirst_(@, segment),
                       !.destroyedSegments_ = Append(@, segment)]
  IN release(destroySynapsesOfSegment_(
               Emit(s, [type |-> "onDestroySegment", id |-> segment]), segment))

\* The heuristic of pruneSegment_: the sum of permanence^2 over a segment.
RECURSIVE heuristic_(_, _, _)
heuristic_(s, synapses, i) ==
  IF i > Len(synapses) THEN 0
  ELSE LET p == s.synapses_[synapses[i]].permanence
       IN p * p + heuristic_(s, synapses, i + 1)

\* A variant of leastUseful_ that keeps the first segment among equal sums.
RECURSIVE leastUsefulFirst_(_, _, _, _, _)
leastUsefulFirst_(s, segs, i, leastUsefulSegment, leastUsefulHeuristic) ==
  IF i > Len(segs) THEN leastUsefulSegment
  ELSE IF leastUsefulSegment = 0
            \/ heuristic_(s, synapsesForSegment(s, segs[i]), 1) < leastUsefulHeuristic
    THEN leastUsefulFirst_(s, segs, i + 1, segs[i],
                           heuristic_(s, synapsesForSegment(s, segs[i]), 1))
    ELSE leastUsefulFirst_(s, segs, i + 1, leastUsefulSegment, leastUsefulHeuristic)

\* The loop of pruneSegment_ over segmentsForCell(cell), from index i on.
\* leastUsefulSegment = 0 stands for the initial numeric_limits::max() pair.
RECURSIVE leastUseful_(_, _, _, _, _)
leastUseful_(s, segs, i, leastUsefulSegment, leastUsefulHeuristic) ==
  IF i > Len(segs) THEN leastUsefulSegment
  ELSE LET segment == segs[i]
           heuristic == heuristic_(s, synapsesForSegment(s, segment), 1)
       IN IF \/ leastUsefulSegment = 0
             \/ heuristic < leastUsefulHeuristic
             \/ (heuristic = leastUsefulHeuristic /\ segment < leastUsefulSegment)
            THEN leastUseful_(s, segs, i + 1, segment, heuristic)
            ELSE leastUseful_(s, segs, i + 1, leastUsefulSegment, leastUsefulHeuristic)

\* Connections::pruneSegment_.
pruneSegment_(s, cell) ==
  destroySegment(s, leastUseful_(s, segmentsForCell(s, cell), 1, 0, 0))

\* The while loop of createSegment.
RECURSIVE pruneToCapacity_(_, _, _)
pruneToCapacity_(s, cell, maxSegmentsPerCell) ==
  IF s.failed \/ numSegments(s, cell) < maxSegmentsPerCell THEN s
  ELSE pruneToCapacity_(pruneSegment_(s, cell), cell, maxSegmentsPerCell)

\* SegmentData(cell): no synapses, numConnected 0.
SegmentData(cell) == [cell |-> cell, synapses |-> <<>>, numConnected |-> 0]

\* Connections::createSegment (maxSegmentsPerCell > 0, cell < numCells()).
createSegment(s, cell, maxSegmentsPerCell) ==
  LET \* the part after the pruning loop
      place(t) ==
        LET reuse   == Len(t.destroyedSegments_) > 0
            segment == IF reuse THEN Last(t.destroyedSegments_)
                       ELSE Len(t.segments_) + 1
        IN [Emit([t EXCEPT
                    !.destroyedSegments_ = IF reuse THEN PopBack(@) ELSE @,
                    !.segments_ = IF reuse THEN [@ EXCEPT ![segment] = SegmentData(cell)]
                                  ELSE Append(@, SegmentData(cell)),
                    !.cells_[cell] = Append(@, segment)],
                 [type |-> "onCreateSegment", id |-> segment])
              EXCEPT !.ret = segment]
  IN place(pruneToCapacity_(s, cell, maxSegmentsPerCell))

\* A variant of existingSynapse_ that finds no duplicate.
noExistingSynapse_(s, segment, presynapticCell) == 0

\* The first synapse of the segment, in list order, with this presynaptic
\* cell; 0 when there is none (the loop at the head of createSynapse).
existingSynapse_(s, segment, presynapticCell) ==
  LET syns == synapsesForSegment(s, segment)
      at == {i \in 1..Len(syns) : s.synapses_[syns[i]].presynapticCell = presynapticCell}
  IN IF at = {} THEN 0
     ELSE syns[CHOOSE j \in at : \A k \in at : j <= k]

\* A variant of raiseExisting_ that overwrites the permanence of the
\* duplicate, also with a smaller one.
overwriteExisting_(s, syn, permanence) ==
  [updateSynapsePermanence(s, syn, permanence) EXCEPT !.ret = syn]

\* The body of the duplicate test in createSynapse:
\* if (permanence > synData.permanence) updateSynapsePermanence(syn, permanence);
\* return syn;
raiseExisting_(s, syn, permanence) ==
  [(IF permanence > s.synapses_[syn].permanence
      THEN updateSynapsePermanence(s, syn, permanence)
      ELSE s) EXCEPT !.ret = syn]

\* Connections::createSynapse.
createSynapse(s, segment, presynapticCell, permanence) ==
  LET reuse   == Len(s.destroyedSynapses_) > 0
      synapse == IF reuse THEN Last(s.destroyedSynapses_) ELSE Len(s.synapses_) + 1
      synapseData ==
        [presynapticCell |-> presynapticCell,
         segment |-> segment,
         permanence |-> s.connectedThreshold_ - maxPermanence,
         presynapticMapIndex_ |->
           Len(Get(s.potentialSynapsesForPresynapticCell_, presynapticCell)) + 1]
      filled ==
        [s EXCEPT
           !.destroyedSynapses_ = IF reuse THEN PopBack(@) ELSE @,
           !.synapses_ = IF reuse THEN [@ EXCEPT ![synapse] = synapseData]
                         ELSE Append(@, synapseData),
           !.potentialSynapsesForPresynapticCell_ =
              Put(@, presynapticCell, Append(Get(@, presynapticCell), synapse)),
           !.potentialSegmentsForPresynapticCell_ =
              Put(@, presynapticCell, Append(Get(@, presynapticCell), segment)),
           !.segments_[segment].synapses = Append(@, synapse)]
      fresh ==
        [updateSynapsePermanence(
           Emit(filled, [type |-> "onCreateSynapse", id |-> synapse]),
           synapse, permanence) EXCEPT !.ret = synapse]
      choose(syn) == IF syn # 0 THEN raiseExisting_(s, syn, permanence) ELSE fresh
  IN choose(existingSynapse_(s, segment, presynapticCell))


\* ------------------------------------------------- learning operations

\* std::vector::resize(n, minPermanence) on an update history.
resizeUpdates_(q, n) ==
  IF Len(q) >= n THEN SubSeq(q, 1, n)
  ELSE q \o [i \in 1..(n - Len(q)) |-> minPermanence]

\* A variant of pruneZero_ that ignores pruneZeroSynapses.
pruneZeroAlways_(pruneZeroSynapses, permanence) ==
  permanence < minPermanence + Epsilon

\* The test of adaptSegment that a synapse is pruned instead of updated.
pruneZero_(pruneZeroSynapses, permanence) ==
  pruneZeroSynapses /\ permanence < minPermanence + Epsilon

\* A variant of tooFewSynapses_ that ignores pruneZeroSynapses.
tooFewSynapsesAlways_(pruneZeroSynapses, size, segmentThreshold) ==
  size < segmentThreshold

\* The test of adaptSegment that the segment is destroyed after the loop.
tooFewSynapses_(pruneZeroSynapses, size, segmentThreshold) ==
  pruneZeroSynapses /\ size < segmentThreshold

\* The for loop of adaptSegment over the synapses of the segment, from index
\* i on; `inputs` is the set of cells that are 1 in the dense input.
RECURSIVE adaptLoop_(_, _, _, _, _, _, _, _)
adaptLoop_(s, syns, i, inputs, increment, decrement, pruneZeroSynapses, destroyLater) ==
  IF i > Len(syns) THEN [s |-> s, destroyLater |-> destroyLater]
  ELSE
    LET synapse == syns[i]
        synapseData == s.synapses_[synapse]
        update == IF synapseData.presynapticCell \in inputs
                    THEN increment ELSE 0 - decrement
        prune == pruneZero_(pruneZeroSynapses, synapseData.permanence + update)
        skip == s.timeseries_ /\ update = s.previousUpdates_[synapse]
        updated == IF skip THEN s
                   ELSE updateSynapsePermanence(
                          s, synapse, synapseData.permanence + update)
    IN adaptLoop_(
         IF prune THEN [s EXCEPT !.prunedSyns_ = @ + 1]
         ELSE IF s.timeseries_
           THEN [updated EXCEPT !.currentUpdates_[synapse] = update]
           ELSE updated,
         syns, i + 1, inputs, increment, decrement, pruneZeroSynapses,
         IF prune THEN Append(destroyLater, synapse) ELSE destroyLater)

\* for (pruneSyn : destroyLater) destroySynapse(pruneSyn), from index i on.
RECURSIVE destroyEach_(_, _, _)
destroyEach_(s, q, i) ==
  IF s.failed \/ i > Len(q) THEN s
  ELSE destroyEach_(destroySynapse(s, q[i], "crash"), q, i + 1)

\* Connections::adaptSegment.
adaptSegment(s, segment, inputs, increment, decrement, pruneZeroSynapses, segmentThreshold) ==
  LET resized ==
        IF s.timeseries_
          THEN [s EXCEPT !.previousUpdates_ = resizeUpdates_(@, Len(s.synapses_)),
                         !.currentUpdates_ = resizeUpdates_(@, Len(s.synapses_))]
          ELSE s
      destroyPruned(r) == destroyEach_(r.s, r.destroyLater, 1)
      \* the part after the synapses are destroyed
      finish(t) ==
        IF t.failed THEN t
        \* NTA_ASSERT(pruneZeroSynapses) when segmentThreshold > 0
        ELSE IF t.assertionsOn /\ segmentThreshold > 0 /\ ~pruneZeroSynapses
          THEN [t EXCEPT !.failed = TRUE]
        ELSE IF tooFewSynapses_(pruneZeroSynapses, numSynapses(t, segment),
                                segmentThreshold)
          THEN [destroySegment(t, segment) EXCEPT !.prunedSegs_ = @ + 1]
        ELSE t
  IN finish(destroyPruned(
       adaptLoop_(resized, synapsesForSegment(s, segment), 1, inputs,
                  increment, decrement, pruneZeroSynapses, <<>>)))

\* for (syn : synapsesForSegment(segment)) updateSynapsePermanence(...),
\* from index i on.
RECURSIVE bumpLoop_(_, _, _, _)
bumpLoop_(s, syns, i, delta) ==
  IF i > Len(syns) THEN s
  ELSE bumpLoop_(
         updateSynapsePermanence(s, syns[i], s.synapses_[syns[i]].permanence + delta),
         syns, i + 1, delta)

\* Connections::bumpSegment.
bumpSegment(s, segment, delta) ==
  bumpLoop_(s, synapsesForSegment(s, segment), 1, delta)

\* The sequences that hold the elements of q (all distinct) in some order.
Permutations_(q) ==
  {p \in [1..Len(q) -> SeqToSet(q)] : SeqToSet(p) = SeqToSet(q)}

\* A variant of nthElementGreater_ that arranges by smaller permanence.
nthElementLess_(s, before, after, n) ==
  /\ after \in Permutations_(before)
  /\ \A i \in 1..Len(after), j \in 1..Len(after) :
       (i <= n /\ j >= n /\ i < j) =>
         ~(s.synapses_[after[j]].permanence < s.synapses_[after[i]].permanence)

\* What std::nth_element(begin, begin + n - 1, end, permanencesGreater)
\* guarantees of the arrangement `after` it leaves: no element behind position
\* n compares greater than one at or before it, none at n greater than one
\* before it.  Which of these arrangements results is left to the library.
nthElementGreater_(s, before, after, n) ==
  /\ after \in Permutations_(before)
  /\ \A i \in 1..Len(after), j \in 1..Len(after) :
       (i <= n /\ j >= n /\ i < j) =>
         ~(s.synapses_[after[j]].permanence > s.synapses_[after[i]].permanence)

\* Connections::raisePermanencesToThreshold; `arranged` is the order in which
\* std::nth_element leaves the segment's synapse list.
raisePermanencesToThreshold(s, segment, segmentThreshold, arranged) ==
  IF segmentThreshold = 0 THEN s
  ELSE IF s.segments_[segment].numConnected >= segmentThreshold THEN s
  ELSE IF Len(s.segments_[segment].synapses) = 0 THEN s
  ELSE
    LET threshold == Min2(segmentThreshold, Len(s.segments_[segment].synapses))
        s1 == [s EXCEPT !.segments_[segment].synapses = arranged]
        increment == s.connectedThreshold_ - s.synapses_[arranged[threshold]].permanence
    IN IF increment <= 0 THEN s1
       ELSE bumpSegment(s1, segment, increment)

\* The arrangements raisePermanencesToThreshold may be left with.
Arrangements_(s, segment, segmentThreshold) ==
  LET syns == s.segments_[segment].synapses
  IN IF segmentThreshold = 0
        \/ s.segments_[segment].numConnected >= segmentThreshold
        \/ Len(syns) = 0
       THEN {syns}
       ELSE {a \in Permutations_(syns) :
               nthElementGreater_(s, syns, a, Min2(segmentThreshold, Len(syns)))}

\* The element std::nth_element(begin, begin + n - 1, end) puts at position n
\* of a vector of permanences: the n-th smallest.
nthSmallest_(values, n) ==
  CHOOSE v \in SeqToSet(values) :
    /\ Cardinality({i \in 1..Len(values) : values[i] < v}) < n
    /\ Cardinality({i \in 1..Len(values) : values[i] <= v}) >= n

\* Connections::synapseCompetition (minimumSynapses <= maximumSynapses,
\* maximumSynapses > 0).
synapseCompetition(s, segment, minimumSynapses, maximumSynapses) ==
  LET segData == s.segments_[segment]
      size == Len(segData.synapses)
  IN IF size = 0 THEN s
     ELSE IF ~(segData.numConnected < minimumSynapses
               \/ segData.numConnected > maximumSynapses) THEN s
     ELSE
       LET wanted == IF segData.numConnected < minimumSynapses
                       THEN minimumSynapses ELSE maximumSynapses
           capped == Min2(size, wanted)
           desiredConnected == IF capped # 0 THEN capped - 1 ELSE capped
           permanences == [i \in 1..size |-> s.synapses_[segData.synapses[i]].permanence]
           minPerm == nthSmallest_(permanences, size - desiredConnected)
           delta == (s.connectedThreshold_ + Epsilon) - minPerm
       IN bumpSegment(s, segment, delta)

\* std::binary_search(excludeCells.cbegin(), excludeCells.cend(), value):
\* the lower_bound halving loop, then the test of the element it stops at.
RECURSIVE lowerBound_(_, _, _, _)
lowerBound_(q, value, first, len) ==
  IF len <= 0 THEN first
  ELSE LET half == len \div 2
           middle == first + half
       IN IF q[middle] < value
            THEN lowerBound_(q, value, middle + 1, len - half - 1)
            ELSE lowerBound_(q, value, first, half)

binarySearch_(q, value) ==
  LET first == lowerBound_(q, value, 1, Len(q))
  IN first <= Len(q) /\ ~(value < q[first])

\* A variant of comparePermanences_ that puts the greater permanence first.
comparePermanencesGreater_(s, A, B) ==
  IF s.synapses_[A].permanence = s.synapses_[B].permanence
    THEN A < B
    ELSE s.synapses_[A].permanence > s.synapses_[B].permanence

\* comparePermanences of destroyMinPermanenceSynapses.
comparePermanences_(s, A, B) ==
  IF s.synapses_[A].permanence = s.synapses_[B].permanence
    THEN A < B
    ELSE s.synapses_[A].permanence < s.synapses_[B].permanence

\* std::sort with comparePermanences (a strict total order on distinct handles).
RECURSIVE sortByPermanence_(_, _)
sortByPermanence_(s, set) ==
  IF set = {} THEN <<>>
  ELSE LET m == CHOOSE a \in set : \A b \in set \ {a} : comparePermanences_(s, a, b)
       IN <<m>> \o sortByPermanence_(s, set \ {m})

\* Connections::destroyMinPermanenceSynapses.
destroyMinPermanenceSynapses(s, segment, nDestroy, excludeCells) ==
  LET syns == synapsesForSegment(s, segment)
      destroyCandidates ==
        sortByPermanence_(s,
          {syns[i] : i \in {j \in 1..Len(syns) :
             ~binarySearch_(excludeCells, s.synapses_[syns[j]].presynapticCell)}})
      destroy == Min2(nDestroy, Len(destroyCandidates))
  IN destroyEach_(s, SubSeq(destroyCandidates, 1, destroy), 1)

\* A variant of growLoop_ that goes through every candidate.
RECURSIVE growLoopAll_(_, _, _, _, _, _)
growLoopAll_(s, segment, candidates, i, initialPermanence, nDesired) ==
  IF i > Len(candidates) THEN s
  ELSE growLoopAll_(createSynapse(s, segment, candidates[i], initialPermanence),
                    segment, candidates, i + 1, initialPermanence, nDesired)

\* The loop of growSynapses over the candidates, from index i on.
RECURSIVE growLoop_(_, _, _, _, _, _)
growLoop_(s, segment, candidates, i, initialPermanence, nDesired) ==
  IF i > Len(candidates) THEN s
  ELSE IF numSynapses(s, segment) = nDesired THEN s
  ELSE growLoop_(createSynapse(s, segment, candidates[i], initialPermanence),
                 segment, candidates, i + 1, initialPermanence, nDesired)

\* Connections::growSynapses; `shuffled` is the order rng.shuffle leaves the
\* candidates in (numSynapses(segment) <= maxSynapsesPerSegment when it is > 0).
growSynapses(s, segment, growthCandidates, initialPermanence, shuffled, maxNew, maxSynapsesPerSegment) ==
  LET nActual0 == IF maxNew = 0 THEN Len(growthCandidates)
                  ELSE Min2(maxNew, Len(growthCandidates))
      overrun == numSynapses(s, segment) + nActual0 - maxSynapsesPerSegment
      candidates == IF maxNew > 0 /\ maxNew < Len(growthCandidates)
                      THEN shuffled ELSE growthCandidates
      \* the part after room is made on the segment
      grow(t) ==
        LET nActual == IF maxSynapsesPerSegment > 0
                         THEN Min2(nActual0,
                                   maxSynapsesPerSegment - numSynapses(t, segment))
                         ELSE nActual0
        IN IF nActual = 0 THEN t
           ELSE [growLoop_(t, segment, candidates, 1, initialPermanence,
                           numSynapses(t, segment) + nActual)
                   EXCEPT !.ret = 0]
  IN grow(IF maxSynapsesPerSegment > 0 /\ overrun > 0
            THEN destroyMinPermanenceSynapses(s, segment, overrun, growthCandidates)
            ELSE s)

\* The inner loop of computeActivity: ++counts[segment] for the segments of
\* one presynaptic cell, from index j on.
RECURSIVE countSegments_(_, _, _)
countSegments_(counts, segs, j) ==
  IF j > Len(segs) THEN counts
  ELSE countSegments_([counts EXCEPT ![segs[j]] = (@ + 1) % SynapseIdxRange],
                      segs, j + 1)

\* The outer loop of computeActivity over the active cells, from index i on.
RECURSIVE activityLoop_(_, _, _, _)
activityLoop_(counts, segmentsForPresynapticCell, activePresynapticCells, i) ==
  IF i > Len(activePresynapticCells) THEN counts
  ELSE activityLoop_(
         IF Has(segmentsForPresynapticCell, activePresynapticCells[i])
           THEN countSegments_(counts,
                               segmentsForPresynapticCell[activePresynapticCells[i]], 1)
           ELSE counts,
         segmentsForPresynapticCell, activePresynapticCells, i + 1)

\* A variant of computeActivity that walks the potential lists.
computeActivityOverPotential_(s, activePresynapticCells) ==
  activityLoop_([segment \in 1..Len(s.segments_) |-> 0],
                s.potentialSegmentsForPresynapticCell_,
                activePresynapticCells, 1)

\* Connections::computeActivity(activePresynapticCells): the vector returned.
computeActivity(s, activePresynapticCells) ==
  activityLoop_([segment \in 1..Len(s.segments_) |-> 0],
                s.connectedSegmentsForPresynapticCell_,
                activePresynapticCells, 1)

\* The start of computeActivity in time-series mode: the current updates
\* become the previous ones and the current ones are cleared.
rotateUpdates_(s) ==
  IF s.timeseries_
    THEN [s EXCEPT !.previousUpdates_ = s.currentUpdates_, !.currentUpdates_ = <<>>]
    ELSE s

\* A variant of reset that clears the current updates only.
resetCurrentOnly_(s) == [s EXCEPT !.currentUpdates_ = <<>>]

\* Connections::reset (the warning outside time-series mode is not modelled).
reset(s) == [s EXCEPT !.previousUpdates_ = <<>>, !.currentUpdates_ = <<>>]

\* A variant of computeActivityPotential that counts the potential lists
\* into a zeroed vector.
computeActivityPotentialOnly_(s, activePresynapticCells) ==
  [after |-> rotateUpdates_(s),
   ret |-> computeActivity(s, activePresynapticCells),
   numActivePotentialSynapsesForSegment |->
     computeActivityOverPotential_(s, activePresynapticCells)]

\* Connections::computeActivity(numActivePotentialSynapsesForSegment,
\* activePresynapticCells): the instance it leaves, the vector it returns
\* and the vector it fills (given with one entry per slot of segments_).
computeActivityPotential(s, activePresynapticCells) ==
  [after |-> rotateUpdates_(s),
   ret |-> computeActivity(s, activePresynapticCells),
   numActivePotentialSynapsesForSegment |->
     activityLoop_(computeActivity(s, activePresynapticCells),
                   s.potentialSegmentsForPresynapticCell_,
                   activePresynapticCells, 1)]

\* ------------------------------------------------------------ the machine

\* Handles a caller may still use: issued and not destroyed since.
LiveSegments(s) == {h \in 1..Len(s.segments_) : h \notin SeqToSet(s.destroyedSegments_)}
LiveSynapses(s) == {y \in 1..Len(s.synapses_) : y \notin SeqToSet(s.destroyedSynapses_)}
\* Handles that were destroyed and not reissued since.
DestroyedSegments(s) == SeqToSet(s.destroyedSegments_)
DestroyedSynapses(s) == SeqToSet(s.destroyedSynapses_)

\* The value of sp while the instance is used on its own.
NoSpatialPooler == [numColumns_ |-> 0]
\* The value of tm while no TemporalMemory owns the instance.
NoTemporalMemory == [cellsPerColumn_ |-> 0]
\* ValueMap vm; (an Empty node without children).
NewValueMap == [type |-> "Empty", value |-> 0, children |-> <<>>]

\* Connections::initialize, then the build and the subscriptions.
InitConnections(numCells, connectedThreshold, timeseries, handlers, assertions) ==
  /\ cells_ = [c \in 1..numCells |-> <<>>]
  /\ segments_ = <<>>
  /\ destroyedSegments_ = <<>>
  /\ synapses_ = <<>>
  /\ destroyedSynapses_ = <<>>
  /\ potentialSynapsesForPresynapticCell_ = <<>>
  /\ potentialSegmentsForPresynapticCell_ = <<>>
  /\ connectedSynapsesForPresynapticCell_ = <<>>
  /\ connectedSegmentsForPresynapticCell_ = <<>>
  /\ connectedThreshold_ = connectedThreshold - Epsilon
  /\ timeseries_ = timeseries
  /\ previousUpdates_ = <<>>
  /\ currentUpdates_ = <<>>
  /\ prunedSyns_ = 0
  /\ prunedSegs_ = 0
  /\ eventHandlers_ = handlers
  /\ assertionsOn = assertions
  /\ events = <<>>
  /\ failed = FALSE
  /\ sp = NoSpatialPooler
  /\ tm = NoTemporalMemory
  /\ vm = NewValueMap

\* A permanence the exploration keeps: one on the grid, or one out of range.
OnGrid(p) == p \in PermGrid \/ p < minPermanence \/ p > maxPermanence

\* The instance can still be called: the last call returned, and no handle
\* has been released twice.
Usable ==
  /\ ~failed
  /\ \A i \in 1..Len(destroyedSynapses_), j \in 1..Len(destroyedSynapses_) :
       i # j => destroyedSynapses_[i] # destroyedSynapses_[j]

\* The exploration follows a behaviour while the instance is usable and
\* until a pruning counter reaches MaxPruned.
Ready == Usable /\ prunedSyns_ < MaxPruned /\ prunedSegs_ < MaxPruned

\* The exploration keeps a call whose result stays within the bounds.
WithinBounds(r) ==
  /\ Len(r.segments_) <= MaxSegments
  /\ Len(r.synapses_) <= MaxSynapses
  /\ \A y \in LiveSynapses(r) : OnGrid(r.synapses_[y].permanence)

Call(r) == WithinBounds(r) /\ SetState(r)

\* Sorted lists of presynaptic cells without repetition, and all lists
\* without repetition.
SortedCellLists ==
  {q \in UNION {[1..n -> PresynCells] : n \in 0..NumPresyn} :
     \A i \in 1..Len(q), j \in 1..Len(q) : i < j => q[i] < q[j]}
CellLists ==
  {q \in UNION {[1..n -> PresynCells] : n \in 0..NumPresyn} :
     \A i \in 1..Len(q), j \in 1..Len(q) : i < j => q[i] # q[j]}

\* The orders rng.shuffle may leave the candidates in, when growSynapses
\* shuffles them at all.
Shuffles_(growthCandidates, maxNew) ==
  IF maxNew > 0 /\ maxNew < Len(growthCandidates)
    THEN Permutations_(growthCandidates) ELSE {growthCandidates}

\* The calls of each public operation that the exploration offers in the
\* instance s, as the records they leave.
CreateSegmentCalls(s) ==
  {createSegment(s, cell, maxSegmentsPerCell) :
     cell \in DOMAIN s.cells_, maxSegmentsPerCell \in 1..MaxSegments}

CreateSynapseCalls(s) ==
  {createSynapse(s, segment, presynapticCell, permanence) :
     segment \in LiveSegments(s), presynapticCell \in PresynCells,
     permanence \in PermInputs}

DestroySegmentCalls(s) ==
  {destroySegment(s, segment) : segment \in LiveSegments(s)}

DestroySynapseCalls(s) ==
  {destroySynapse(s, synapse, "crash") : synapse \in LiveSynapses(s)}

UpdateSynapsePermanenceCalls(s) ==
  {updateSynapsePermanence(s, synapse, permanence) :
     synapse \in LiveSynapses(s), permanence \in PermInputs}

AdaptSegmentCalls(s) ==
  {adaptSegment(s, segment, inputs, a[1], a[2], a[3], a[4]) :
     segment \in LiveSegments(s), inputs \in SUBSET PresynCells, a \in AdaptInputs}

BumpSegmentCalls(s) ==
  {bumpSegment(s, segment, delta) : segment \in LiveSegments(s), delta \in DeltaInputs}

RaisePermanencesToThresholdCalls(s) ==
  UNION {{raisePermanencesToThreshold(s, segment, segmentThreshold, arranged) :
            arranged \in Arrangements_(s, segment, segmentThreshold)} :
         segment \in LiveSegments(s), segmentThreshold \in 0..MaxSynapses}

SynapseCompetitionCalls(s) ==
  {synapseCompetition(s, segment, m[1], m[2]) :
     segment \in LiveSegments(s),
     m \in {n \in (0..MaxSynapses) \X (1..MaxSynapses) : n[1] <= n[2]}}

DestroyMinPermanenceSynapsesCalls(s) ==
  {destroyMinPermanenceSynapses(s, segment, nDestroy, excludeCells) :
     segment \in LiveSegments(s), nDestroy \in 1..MaxSynapses,
     excludeCells \in SortedCellLists}

GrowSynapsesCalls(s) ==
  UNION {{growSynapses(s, g[1], g[2], 5000, shuffled, g[3], g[4]) :
            shuffled \in Shuffles_(g[2], g[3])} :
         g \in {h \in LiveSegments(s) \X CellLists \X (0..1) \X {0, MaxSynapses} :
                  h[4] > 0 => numSynapses(s, h[1]) <= h[4]}}

CreateSegment == Ready /\ \E r \in CreateSegmentCalls(State) : Call(r)
CreateSynapse == Ready /\ \E r \in CreateSynapseCalls(State) : Call(r)
DestroySegment == Ready /\ \E r \in DestroySegmentCalls(State) : Call(r)
DestroySynapse == Ready /\ \E r \in DestroySynapseCalls(State) : Call(r)
UpdateSynapsePermanence == Ready /\ \E r \in UpdateSynapsePermanenceCalls(State) : Call(r)
AdaptSegment == Ready /\ \E r \in AdaptSegmentCalls(State) : Call(r)
BumpSegment == Ready /\ \E r \in BumpSegmentCalls(State) : Call(r)
RaisePermanencesToThreshold == Ready /\ \E r \in RaisePermanencesToThresholdCalls(State) : Call(r)
SynapseCompetition == Ready /\ \E r \in SynapseCompetitionCalls(State) : Call(r)
DestroyMinPermanenceSynapses == Ready /\ \E r \in DestroyMinPermanenceSynapsesCalls(State) : Call(r)
GrowSynapses == Ready /\ \E r \in GrowSynapsesCalls(State) : Call(r)

ComputeActivity ==
  Ready /\ \E activePresynapticCells \in CellLists :
             Call(computeActivityPotential(State, activePresynapticCells).after)

Init == \E t \in ThresholdInputs : InitConnections(NumCells, t, FALSE, {}, FALSE)

Next ==
  \/ CreateSegment
  \/ CreateSynapse
  \/ DestroySegment
  \/ DestroySynapse
  \/ UpdateSynapsePermanence
  \/ AdaptSegment
  \/ BumpSegment
  \/ RaisePermanencesToThreshold
  \/ SynapseCompetition
  \/ DestroyMinPermanenceSynapses
  \/ GrowSynapses

Spec == Init /\ [][Next]_vars

\* ------------------------------------------ calls with a destroyed handle

\* What the build does with an access outside a vector.
UndefinedOutcomes == {"crash", "stray"}

\* destroySynapse with a handle that was destroyed and not reissued.
DestroySynapseAgainCalls(s) ==
  {destroySynapse(s, synapse, ub) :
     synapse \in DestroyedSynapses(s), ub \in UndefinedOutcomes}

DestroySynapseAgain == Ready /\ \E r \in DestroySynapseAgainCalls(State) : Call(r)

\* Release and debug builds, with one handler subscribed.
InitStale ==
  \E t \in ThresholdInputs, assertions \in BOOLEAN :
    InitConnections(NumCells, t, FALSE, {1}, assertions)

NextStale ==
  \/ CreateSegment
  \/ CreateSynapse
  \/ UpdateSynapsePermanence
  \/ DestroySynapse
  \/ DestroySynapseAgain

SpecStale == InitStale /\ [][NextStale]_vars

\* ------------------------------------------------- segments on two cells

InitCells == \E t \in ThresholdInputs : InitConnections(NumCellsWide, t, FALSE, {}, FALSE)

NextCells ==
  \/ CreateSegment
  \/ CreateSynapse
  \/ UpdateSynapsePermanence
  \/ DestroySegment

SpecCells == InitCells /\ [][NextCells]_vars

\* ------------------------------------- learning, in and out of time series

InitSeries ==
  \E t \in ThresholdInputs, timeseries \in BOOLEAN :
    InitConnections(NumCells, t, timeseries, {}, FALSE)

\* The exploration of the update history keeps to one segment.
CreateFirstSegment == segments_ = <<>> /\ CreateSegment

Reset == Ready /\ Call(reset(State))

NextSeries ==
  \/ CreateFirstSegment
  \/ CreateSynapse
  \/ DestroySynapse
  \/ AdaptSegment
  \/ ComputeActivity
  \/ Reset

SpecSeries == InitSeries /\ [][NextSeries]_vars

\* --------------------------- one segment, three synapses, finer permanences

\* Permanence arguments of createSynapse, and the permanences kept.
FinePermInputs == {0, 2500}
FineGrid == {minPermanence, 2500, 5000 - Epsilon, 5000, 7500, maxPermanence}
FinePresynCells == 1..NumPresynFine

\* Lists of presynaptic cells of length at most n, and the sorted ones
\* without repetition.
FineCellLists(n) == UNION {[1..k -> FinePresynCells] : k \in 0..n}
FineSortedCellLists ==
  {q \in FineCellLists(NumPresynFine) :
     \A i \in 1..Len(q), j \in 1..Len(q) : i < j => q[i] < q[j]}

WithinFine(r) ==
  /\ Len(r.segments_) <= 1
  /\ Len(r.synapses_) <= MaxSynapsesFine
  /\ \A y \in LiveSynapses(r) : r.synapses_[y].permanence \in FineGrid

CallFine(r) == WithinFine(r) /\ SetState(r)

CreateSynapseFine ==
  Ready /\ \E segment \in LiveSegments(State), presynapticCell \in FinePresynCells,
               permanence \in FinePermInputs :
             CallFine(createSynapse(State, segment, presynapticCell, permanence))

RaisePermanencesToThresholdFine ==
  Ready /\ \E segment \in LiveSegments(State), segmentThreshold \in 0..MaxSynapsesFine :
             \E arranged \in Arrangements_(State, segment, segmentThreshold) :
               CallFine(raisePermanencesToThreshold(State, segment, segmentThreshold,
                                                    arranged))

SynapseCompetitionFine ==
  Ready /\ \E segment \in LiveSegments(State), maximumSynapses \in 1..MaxSynapsesFine :
             \E minimumSynapses \in 0..maximumSynapses :
               CallFine(synapseCompetition(State, segment, minimumSynapses,
                                           maximumSynapses))

\* The exploration destroys synapses while the free-list is empty.
DestroyMinPermanenceSynapsesFine ==
  Ready /\ destroyedSynapses_ = <<>>
        /\ \E segment \in LiveSegments(State), nDestroy \in 1..MaxSynapsesFine,
               excludeCells \in FineSortedCellLists :
             CallFine(destroyMinPermanenceSynapses(State, segment, nDestroy,
                                                   excludeCells))

\* growSynapses with initialPermanence 0.25, without a limit and with room
\* for two synapses on the segment.
GrowSynapsesFine ==
  Ready /\ destroyedSynapses_ = <<>>
        /\ \E segment \in LiveSegments(State), growthCandidates \in FineCellLists(2),
               maxNew \in 0..1, maxSynapsesPerSegment \in {0, 2} :
             /\ maxSynapsesPerSegment > 0
                  => numSynapses(State, segment) <= maxSynapsesPerSegment
             /\ \E shuffled \in Shuffles_(growthCandidates, maxNew) :
                  CallFine(growSynapses(State, segment, growthCandidates, 2500,
                                        shuffled, maxNew, maxSynapsesPerSegment))

InitFine == \E t \in ThresholdInputs : InitConnections(NumCells, t, FALSE, {}, FALSE)

NextFine ==
  \/ CreateFirstSegment
  \/ CreateSynapseFine
  \/ RaisePermanencesToThresholdFine
  \/ SynapseCompetitionFine
  \/ DestroyMinPermanenceSynapsesFine
  \/ GrowSynapsesFine

SpecFine == InitFine /\ [][NextFine]_vars

\* ------------------------------------------------------------ properties

\* The number of positions of the sequence q that hold x.
Count(q, x) == Cardinality({i \in 1..Len(q) : q[i] = x})

\* connected: the permanence is at or above the threshold the instance
\* stores (the constructor's argument less one Epsilon).
IsConnected(y) == synapses_[y].permanence >= connectedThreshold_

\* The number of connected synapses on the list of segment h whose
\* presynaptic cell is in the set A.
ConnectedOn(h, A) ==
  Cardinality({i \in 1..Len(segments_[h].synapses) :
                 /\ IsConnected(segments_[h].synapses[i])
                 /\ synapses_[segments_[h].synapses[i]].presynapticCell \in A})

\* C1: every live synapse is in exactly one presynaptic list, the connected
\* list of its presynaptic cell iff its permanence is at or above the
\* connected threshold and else the potential list of that cell, exactly
\* once, at index presynapticMapIndex_, and the parallel segment list holds
\* its segment at that index; no destroyed synapse is in any presynaptic
\* list.
C1_PresynapticLists ==
  LET synMaps == <<potentialSynapsesForPresynapticCell_,
                   connectedSynapsesForPresynapticCell_>>
      segMaps == <<potentialSegmentsForPresynapticCell_,
                   connectedSegmentsForPresynapticCell_>>
  IN /\ \A y \in LiveSynapses(State) :
          LET own   == IF IsConnected(y) THEN 2 ELSE 1
              c     == synapses_[y].presynapticCell
              index == synapses_[y].presynapticMapIndex_
          IN /\ Has(synMaps[own], c) /\ Has(segMaps[own], c)
             /\ index \in 1..Len(synMaps[own][c])
             /\ index \in 1..Len(segMaps[own][c])
             /\ synMaps[own][c][index] = y
             /\ segMaps[own][c][index] = synapses_[y].segment
             /\ \A m \in 1..2 : \A d \in DOMAIN synMaps[m] :
                  Count(synMaps[m][d], y) = IF m = own /\ d = c THEN 1 ELSE 0
     /\ \A y \in DestroyedSynapses(State) :
          \A m \in 1..2 : \A d \in DOMAIN synMaps[m] : Count(synMaps[m][d], y) = 0

\* C1 witness: a presynaptic list holds two live synapses with the later
\* handle in front, an order that only a removal or a move leaves.
C1_Witness ==
  \E c \in DOMAIN connectedSynapsesForPresynapticCell_ :
    /\ Len(connectedSynapsesForPresynapticCell_[c]) = 2
    /\ connectedSynapsesForPresynapticCell_[c][1] > connectedSynapsesForPresynapticCell_[c][2]
    /\ SeqToSet(connectedSynapsesForPresynapticCell_[c]) \subseteq LiveSynapses(State)

\* C2: for every live segment, numConnected is the number of synapses on
\* the segment whose permanence is at or above the connected threshold.
C2_NumConnected ==
  \A h \in LiveSegments(State) :
    segments_[h].numConnected = ConnectedOn(h, PresynCells)

\* C2 witness: a live segment holds a synapse exactly on the stored
\* threshold, counted as connected, next to one below it, while a destroyed
\* segment handle waits on the free-list.
C2_Witness ==
  \E h \in LiveSegments(State) :
    /\ Len(segments_[h].synapses) = 2
    /\ segments_[h].numConnected = 1
    /\ \E i \in 1..2 : synapses_[segments_[h].synapses[i]].permanence = connectedThreshold_
    /\ destroyedSegments_ # <<>>

\* C3: for every list A of active presynaptic cells without repetition,
\* computeActivity(A) has one entry per segment slot, and the entry of a
\* slot is the number of synapses on that segment that are connected and
\* whose presynaptic cell is in A (0 for a destroyed segment).
C3_ComputeActivity ==
  \A A \in CellLists :
    LET counts == computeActivity(State, A)
    IN /\ Len(counts) = Len(segments_)
       /\ \A h \in 1..Len(segments_) : counts[h] = ConnectedOn(h, SeqToSet(A))
       /\ \A h \in DestroyedSegments(State) : counts[h] = 0

\* C3 witness: some list of active cells meets, on one segment, a connected
\* synapse (counted) and a potential synapse (not counted), and a destroyed
\* segment slot has the entry 0.
C3_Witness ==
  \E A \in CellLists, h \in LiveSegments(State) :
    /\ computeActivity(State, A)[h] = 1
    /\ \E i \in 1..Len(segments_[h].synapses) :
         /\ ~IsConnected(segments_[h].synapses[i])
         /\ synapses_[segments_[h].synapses[i]].presynapticCell \in SeqToSet(A)
    /\ \E d \in DestroyedSegments(State) : computeActivity(State, A)[d] = 0

\* C4: no live segment holds two synapses with the same presynaptic cell.
C4_NoDuplicatePresynapticCell ==
  \A h \in LiveSegments(State) :
    \A i \in 1..Len(segments_[h].synapses), j \in 1..Len(segments_[h].synapses) :
      i # j => synapses_[segments_[h].synapses[i]].presynapticCell
                 # synapses_[segments_[h].synapses[j]].presynapticCell

\* C4 witness: a segment holds a synapse from every presynaptic cell, the
\* recycled handle in front, so every further createSynapse or growSynapses
\* on it meets a cell that is already present.
C4_Witness ==
  \E h \in LiveSegments(State) :
    /\ Len(segments_[h].synapses) = NumPresyn
    /\ segments_[h].synapses[1] > segments_[h].synapses[2]

\* The synapses of a segment that come from the presynaptic cell c.
SynapsesFrom(segment, c) ==
  {y \in SeqToSet(segments_[segment].synapses) : synapses_[y].presynapticCell = c}

\* A permanence brought to the nearest bound of the range.
InRange(p) ==
  IF p > maxPermanence THEN maxPermanence
  ELSE IF p < minPermanence THEN minPermanence ELSE p

\* C5: createSynapse(segment, c, p) on a segment that has a synapse y from
\* cell c creates nothing: it returns y, the synapse list of the segment,
\* the number of slots and the free-list are as before, the permanence of y
\* is the larger of what it was and p brought into range, and numConnected
\* is as before when p is not greater than what it was, and else is as
\* before or one more.
C5_DuplicateCreateSynapse ==
  \A segment \in LiveSegments(State), c \in PresynCells, p \in PermInputs \cup PermGrid :
    \A y \in SynapsesFrom(segment, c) :
      LET r == createSynapse(State, segment, c, p)
          existing == synapses_[y].permanence
          before == segments_[segment].numConnected
          after == r.segments_[segment].numConnected
      IN /\ r.ret = y
         /\ ~r.failed
         /\ r.segments_[segment].synapses = segments_[segment].synapses
         /\ Len(r.synapses_) = Len(synapses_)
         /\ r.destroyedSynapses_ = destroyedSynapses_
         /\ r.synapses_[y].permanence = Max2(existing, InRange(p))
         /\ p <= existing => after = before
         /\ p > existing => after \in {before, before + 1}

\* C5 witness: a segment holds a potential synapse, and createSynapse with
\* its presynaptic cell and a larger permanence returns it connected.
C5_Witness ==
  \E segment \in LiveSegments(State), c \in PresynCells, p \in PermInputs :
    \E y \in SynapsesFrom(segment, c) :
      LET r == createSynapse(State, segment, c, p)
      IN /\ ~IsConnected(y)
         /\ r.ret = y
         /\ r.synapses_[y].permanence = p
         /\ r.segments_[segment].numConnected = segments_[segment].numConnected + 1

\* C6: every live segment is listed exactly once, by the cell its slot
\* names and by no other; every live synapse is listed exactly once, by the
\* segment its slot names and by no other; destroyed segments and synapses
\* are listed nowhere.
C6_OwnershipAgrees ==
  /\ \A h \in LiveSegments(State) :
       /\ segments_[h].cell \in Cells
       /\ \A c \in Cells : Count(cells_[c], h) = IF c = segments_[h].cell THEN 1 ELSE 0
  /\ \A y \in LiveSynapses(State) :
       /\ synapses_[y].segment \in LiveSegments(State)
       /\ \A h \in 1..Len(segments_) :
            Count(segments_[h].synapses, y) = IF h = synapses_[y].segment THEN 1 ELSE 0
  /\ \A h \in DestroyedSegments(State) : \A c \in Cells : Count(cells_[c], h) = 0
  /\ \A y \in DestroyedSynapses(State) :
       \A h \in 1..Len(segments_) : Count(segments_[h].synapses, y) = 0

\* C6 witness: a segment and a synapse have been destroyed, and the live
\* segment lists a live synapse.
C6_Witness ==
  /\ destroyedSegments_ # <<>>
  /\ destroyedSynapses_ # <<>>
  /\ \E h \in LiveSegments(State) :
       segments_[h].synapses # <<>> /\ cells_[segments_[h].cell] = <<h>>

\* The instance with an observer subscribed, and the handles a call on it
\* destroyed, in the order of the events the observer received.
Observed == subscribe(State, 1)
DestroyedBy(r, type) ==
  {r.events[i].id : i \in {j \in 1..Len(r.events) : r.events[j].type = type}}
LastDestroyedBy(r, type) ==
  LET at == {j \in 1..Len(r.events) : r.events[j].type = type}
  IN r.events[CHOOSE j \in at : \A k \in at : k <= j].id

\* Each free-list holds exactly once every issued handle that no owner
\* lists, and no handle that an owner lists.
FreeListsExact ==
  /\ \A i \in 1..Len(destroyedSegments_) : destroyedSegments_[i] \in 1..Len(segments_)
  /\ \A i \in 1..Len(destroyedSynapses_) : destroyedSynapses_[i] \in 1..Len(synapses_)
  /\ \A h \in 1..Len(segments_) :
       Count(destroyedSegments_, h) = IF \E c \in Cells : Count(cells_[c], h) > 0 THEN 0 ELSE 1
  /\ \A y \in 1..Len(synapses_) :
       Count(destroyedSynapses_, y) =
         IF \E h \in 1..Len(segments_) : Count(segments_[h].synapses, y) > 0 THEN 0 ELSE 1

\* A handle that the call leaving r does not destroy is live after it and
\* denotes what it denoted: a segment of the same cell, a synapse of the
\* same segment and presynaptic cell.
KeepsMeaning(r) ==
  /\ \A h \in LiveSegments(State) \ DestroyedBy(r, "onDestroySegment") :
       /\ h \in LiveSegments(r)
       /\ r.segments_[h].cell = segments_[h].cell
  /\ \A y \in LiveSynapses(State) \ DestroyedBy(r, "onDestroySynapse") :
       /\ y \in LiveSynapses(r)
       /\ r.synapses_[y].segment = synapses_[y].segment
       /\ r.synapses_[y].presynapticCell = synapses_[y].presynapticCell

\* Every call the exploration offers keeps the meaning of the handles it
\* does not destroy.
HandlesKeepMeaning ==
  /\ \A r \in CreateSegmentCalls(Observed) : KeepsMeaning(r)
  /\ \A r \in CreateSynapseCalls(Observed) : KeepsMeaning(r)
  /\ \A r \in DestroySegmentCalls(Observed) : KeepsMeaning(r)
  /\ \A r \in DestroySynapseCalls(Observed) : KeepsMeaning(r)
  /\ \A r \in UpdateSynapsePermanenceCalls(Observed) : KeepsMeaning(r)
  /\ \A r \in AdaptSegmentCalls(Observed) : KeepsMeaning(r)
  /\ \A r \in BumpSegmentCalls(Observed) : KeepsMeaning(r)
  /\ \A r \in RaisePermanencesToThresholdCalls(Observed) : KeepsMeaning(r)
  /\ \A r \in SynapseCompetitionCalls(Observed) : KeepsMeaning(r)
  /\ \A r \in DestroyMinPermanenceSynapsesCalls(Observed) : KeepsMeaning(r)
  /\ \A r \in GrowSynapsesCalls(Observed) : KeepsMeaning(r)

\* A handle is issued from the back of the free-list, and as a fresh index
\* only when the free-list is empty.
IssuedFrom(ret, freeBefore, freeAfter, slotsBefore, slotsAfter) ==
  IF freeBefore # <<>>
    THEN ret = Last(freeBefore) /\ freeAfter = PopBack(freeBefore)
         /\ slotsAfter = slotsBefore
    ELSE ret = slotsBefore + 1 /\ freeAfter = <<>> /\ slotsAfter = slotsBefore + 1

\* createSynapse returns the synapse the segment already has from the cell,
\* and else issues a handle; createSegment on a cell with room issues a
\* handle, and on a cell without room returns the handle of the segment of
\* that cell it pruned last.
CreateReturns ==
  /\ \A segment \in LiveSegments(State), c \in PresynCells, p \in PermInputs :
       LET r == createSynapse(State, segment, c, p)
       IN /\ r.ret \in LiveSynapses(r)
          /\ IF SynapsesFrom(segment, c) # {}
               THEN r.ret \in SynapsesFrom(segment, c)
                    /\ r.destroyedSynapses_ = destroyedSynapses_
               ELSE IssuedFrom(r.ret, destroyedSynapses_, r.destroyedSynapses_,
                               Len(synapses_), Len(r.synapses_))
  /\ \A cell \in Cells, maxSegmentsPerCell \in 1..MaxSegments :
       LET r == createSegment(Observed, cell, maxSegmentsPerCell)
           pruned == DestroyedBy(r, "onDestroySegment")
       IN /\ r.ret \in LiveSegments(r)
          /\ r.segments_[r.ret] = SegmentData(cell)
          /\ IF Len(cells_[cell]) < maxSegmentsPerCell
               THEN pruned = {}
                    /\ IssuedFrom(r.ret, destroyedSegments_, r.destroyedSegments_,
                                  Len(segments_), Len(r.segments_))
               ELSE pruned # {}
                    /\ pruned \subseteq SeqToSet(cells_[cell])
                    /\ r.ret = LastDestroyedBy(r, "onDestroySegment")

\* createSegment and createSynapse never return a handle that is live when
\* they are called.
NeverReturnsLiveHandle ==
  /\ \A r \in CreateSegmentCalls(State) : r.ret \notin LiveSegments(State)
  /\ \A r \in CreateSynapseCalls(State) : r.ret \notin LiveSynapses(State)

\* C7, as amended: handles keep their meaning until they are destroyed; each
\* free-list holds every destroyed and not reissued handle exactly once and
\* no live handle; the most recently freed handle is reissued first and a
\* fresh index is used only when the free-list is empty; and a create call
\* returns a handle that is live when it is called in two cases only:
\* createSynapse for a presynaptic cell the segment already has (the
\* existing synapse), createSegment on a cell without room (the segment it
\* pruned).
C7_HandlesStable ==
  FreeListsExact /\ HandlesKeepMeaning /\ CreateReturns

\* C7, as stated: the same, with create calls that never return a handle
\* that is live at the time of the call.
C7_AsStated ==
  FreeListsExact /\ HandlesKeepMeaning /\ NeverReturnsLiveHandle

\* C7 witness: a synapse handle waits on the free-list, the cell has no
\* room, and a createSegment call returns a handle that is live.
C7_Witness ==
  /\ destroyedSynapses_ # <<>>
  /\ LiveSynapses(State) # {}
  /\ \E r \in CreateSegmentCalls(State) : r.ret \in LiveSegments(State)

\* The variables of the instance; events and failed are what the last call
\* delivered and whether it threw.
instanceVars ==
  <<cells_, segments_, destroyedSegments_, synapses_, destroyedSynapses_,
    potentialSynapsesForPresynapticCell_, potentialSegmentsForPresynapticCell_,
    connectedSynapsesForPresynapticCell_, connectedSegmentsForPresynapticCell_,
    connectedThreshold_, timeseries_, previousUpdates_, currentUpdates_,
    prunedSyns_, prunedSegs_, eventHandlers_, assertionsOn>>

\* C8: destroySynapse on a handle that was destroyed and not reissued is a
\* no-op: it emits no event, changes no list, counter or free-list, and
\* does not fail.
C8_DestroyAgainIsNoOp ==
  [][DestroySynapseAgain =>
       UNCHANGED instanceVars /\ events' = <<>> /\ failed' = FALSE]_vars

\* C9: the slot of every destroyed synapse carries the sentinel permanence
\* -1, so the fast existence check is false for every destroyed synapse and
\* true for every live one.
C9_SentinelOnDestroyedSlots ==
  /\ \A y \in DestroyedSynapses(State) :
       /\ synapses_[y].permanence = DestroyedPermanence
       /\ ~synapseExists_(State, y, TRUE)
  /\ \A y \in LiveSynapses(State) : synapseExists_(State, y, TRUE)

\* C10: every live synapse has a permanence in [minPermanence, maxPermanence].
C10_PermanenceInRange ==
  \A y \in LiveSynapses(State) :
    minPermanence <= synapses_[y].permanence /\ synapses_[y].permanence <= maxPermanence

\* C10 witness: a synapse sits on each bound of the range, where a
\* permanence above 1.0 and one below 0.0 were brought.
C10_Witness ==
  /\ \E y \in LiveSynapses(State) : synapses_[y].permanence = maxPermanence
  /\ \E y \in LiveSynapses(State) : synapses_[y].permanence = minPermanence

\* The sum of the squared permanences of a set of synapses.
RECURSIVE SumOfSquares(_)
SumOfSquares(Y) ==
  IF Y = {} THEN 0
  ELSE LET y == CHOOSE z \in Y : TRUE
       IN synapses_[y].permanence * synapses_[y].permanence + SumOfSquares(Y \ {y})

\* Segment g is destroyed before segment h: smaller sum, or the same sum
\* and the lower handle.
LessUseful(g, h) ==
  LET a == SumOfSquares(SeqToSet(segments_[g].synapses))
      b == SumOfSquares(SeqToSet(segments_[h].synapses))
  IN a < b \/ (a = b /\ g < h)

\* Synapse y is in the instance r what it is now: same segment, same
\* presynaptic cell, same permanence (its place in the presynaptic list of
\* its cell may have moved).
SameSynapse(r, y) ==
  /\ r.synapses_[y].segment = synapses_[y].segment
  /\ r.synapses_[y].presynapticCell = synapses_[y].presynapticCell
  /\ r.synapses_[y].permanence = synapses_[y].permanence

\* The segments createSegment(cell, maxSegmentsPerCell) has to destroy: the
\* least useful ones of the cell, as many as leave room for one more.
Victims(cell, maxSegmentsPerCell) ==
  LET on == SeqToSet(cells_[cell])
  IN {h \in on : Cardinality({g \in on : LessUseful(g, h)})
                   < Cardinality(on) - maxSegmentsPerCell + 1}

C11_OtherCellWitness ==
  \E cell \in DOMAIN cells_, other \in DOMAIN cells_ :
    /\ cell # other
    /\ cells_[cell] # <<>>
    /\ cells_[other] # <<>>
    /\ segments_[cells_[other][1]].synapses # <<>>
    /\ Victims(cell, 1) # {}
\* <<increment, decrement, pruneZeroSynapses, segmentThreshold>> for which
\* the outcome of adaptSegment is stated.
AdaptCases ==
  AdaptInputs \cup {<<5000, 5000, FALSE, 2>>, <<5000, 5000, TRUE, 1>>}

\* The synapses of the segment that adaptSegment does not prune: those whose
\* updated permanence is not below minPermanence + Epsilon.
Survivors(segment, inputs, increment, decrement) ==
  {y \in SeqToSet(segments_[segment].synapses) :
     synapses_[y].permanence
       + (IF synapses_[y].presynapticCell \in inputs THEN increment ELSE 0 - decrement)
     >= minPermanence + Epsilon}

\* The instance r has destroyed nothing that is live now.
NothingDestroyed(r) ==
  /\ LiveSegments(r) = LiveSegments(State)
  /\ LiveSynapses(r) = LiveSynapses(State)
  /\ r.destroyedSegments_ = destroyedSegments_
  /\ r.destroyedSynapses_ = destroyedSynapses_
  /\ r.cells_ = cells_
  /\ \A h \in LiveSegments(State) : r.segments_[h].synapses = segments_[h].synapses
  /\ DestroyedBy(r, "onDestroySegment") = {}
  /\ DestroyedBy(r, "onDestroySynapse") = {}

\* C12: with pruneZeroSynapses, adaptSegment destroys the segment in the
\* same call exactly when fewer than segmentThreshold of its synapses are
\* left after the updates and prunes: its remaining synapses are destroyed
\* and its handle goes to the free-list; else the segment stays with the
\* synapses that were not pruned.  Without pruneZeroSynapses it destroys no
\* synapse and no segment, whatever segmentThreshold is, in release and in
\* debug builds.
C12_AdaptSegmentDestroys ==
  \A segment \in LiveSegments(State), inputs \in SUBSET PresynCells,
     a \in AdaptCases, assertions \in BOOLEAN :
    LET r == adaptSegment([Observed EXCEPT !.assertionsOn = assertions],
                          segment, inputs, a[1], a[2], a[3], a[4])
        left == Survivors(segment, inputs, a[1], a[2])
    IN IF ~a[3] THEN NothingDestroyed(r)
       ELSE /\ ~r.failed
            /\ IF Cardinality(left) < a[4]
                 THEN /\ Count(r.destroyedSegments_, segment) = 1
                      /\ \A c \in DOMAIN cells_ : Count(r.cells_[c], segment) = 0
                      /\ DestroyedBy(r, "onDestroySegment") = {segment}
                      /\ \A y \in SeqToSet(segments_[segment].synapses) :
                           Count(r.destroyedSynapses_, y) = 1
                      /\ LiveSegments(r) = LiveSegments(State) \ {segment}
                 ELSE /\ LiveSegments(r) = LiveSegments(State)
                      /\ SeqToSet(r.segments_[segment].synapses) = left
                      /\ DestroyedBy(r, "onDestroySegment") = {}
            /\ LiveSynapses(r) \cap SeqToSet(segments_[segment].synapses)
                 = IF Cardinality(left) < a[4] THEN {} ELSE left
            /\ \A h \in LiveSegments(State) \ {segment} :
                 SeqToSet(r.segments_[h].synapses) = SeqToSet(segments_[h].synapses)

\* C12 witness: a segment with two synapses, one of which an adaptSegment
\* call would prune while the other stays, so that a segmentThreshold of 2
\* destroys the segment and the synapse that was not pruned with it.
C12_Witness ==
  \E segment \in LiveSegments(State), inputs \in SUBSET PresynCells :
    /\ Len(segments_[segment].synapses) = 2
    /\ Cardinality(Survivors(segment, inputs, 5000, 5000)) = 1
    /\ segment \in DestroyedSegments(adaptSegment(State, segment, inputs, 5000, 5000, TRUE, 2))
    /\ segment \in LiveSegments(adaptSegment(State, segment, inputs, 5000, 5000, TRUE, 1))

\* C13: adaptSegment with increment 0, decrement 0 and no pruning leaves
\* every synapse, every presynaptic list, every numConnected counter and
\* the live segments and synapses as they are, for every input, in and out
\* of time-series mode.
C13_AdaptByZeroChangesNothing ==
  \A segment \in LiveSegments(State), inputs \in SUBSET PresynCells :
    LET r == adaptSegment(Observed, segment, inputs, 0, 0, FALSE, 0)
    IN /\ ~r.failed
       /\ r.synapses_ = synapses_
       /\ r.segments_ = segments_
       /\ r.cells_ = cells_
       /\ r.potentialSynapsesForPresynapticCell_ = potentialSynapsesForPresynapticCell_
       /\ r.potentialSegmentsForPresynapticCell_ = potentialSegmentsForPresynapticCell_
       /\ r.connectedSynapsesForPresynapticCell_ = connectedSynapsesForPresynapticCell_
       /\ r.connectedSegmentsForPresynapticCell_ = connectedSegmentsForPresynapticCell_
       /\ r.destroyedSegments_ = destroyedSegments_
       /\ r.destroyedSynapses_ = destroyedSynapses_
       /\ r.events = <<>>

\* C13 witness: in time-series mode a synapse of the segment sits at
\* permanence 0 and its previous update was not 0, so that the call with
\* increment = decrement = 0 does write its permanence.
C13_Witness ==
  /\ timeseries_
  /\ \E segment \in LiveSegments(State) :
       \E i \in 1..Len(segments_[segment].synapses) :
         LET y == segments_[segment].synapses[i]
         IN /\ synapses_[y].permanence = minPermanence
            /\ y <= Len(previousUpdates_)
            /\ previousUpdates_[y] # 0
            /\ adaptSegment(State, segment, {}, 0, 0, FALSE, 0).currentUpdates_[y] = 0
\* The synapses of a segment, the n-th greatest of their permanences, and
\* the number of them that are connected in the instance r.
SynapsesOn(segment) == SeqToSet(segments_[segment].synapses)
NthGreatest(segment, n) ==
  CHOOSE v \in {synapses_[y].permanence : y \in SynapsesOn(segment)} :
    /\ Cardinality({y \in SynapsesOn(segment) : synapses_[y].permanence > v}) < n
    /\ Cardinality({y \in SynapsesOn(segment) : synapses_[y].permanence >= v}) >= n
ConnectedIn(r, segment) ==
  Cardinality({y \in SeqToSet(r.segments_[segment].synapses) :
                 r.synapses_[y].permanence >= r.connectedThreshold_})

\* The instance r has the synapses and segments that are live now, and no
\* others.
SameHandles(r) ==
  /\ LiveSegments(r) = LiveSegments(State)
  /\ LiveSynapses(r) = LiveSynapses(State)
  /\ r.destroyedSegments_ = destroyedSegments_
  /\ r.destroyedSynapses_ = destroyedSynapses_
  /\ \A h \in LiveSegments(State) :
       SeqToSet(r.segments_[h].synapses) = SynapsesOn(h)
  /\ \A i \in 1..Len(r.events) : r.events[i].type = "onUpdateSynapsePermanence"

\* C14: after raisePermanencesToThreshold(segment, k) at least min(k, n) of
\* the n synapses of the segment are connected; the call changes nothing
\* when k = 0, when n = 0 or when numConnected >= k, and else adds one
\* amount, the shortfall of the min(k, n)-th greatest permanence, to every
\* synapse of the segment, clamped at maxPermanence; it creates and destroys
\* no synapse.
C14_RaisePermanencesToThreshold ==
  \A segment \in LiveSegments(State), k \in 0..(MaxSynapsesFine + 1) :
    \A arranged \in Arrangements_(Observed, segment, k) :
      LET r == raisePermanencesToThreshold(Observed, segment, k, arranged)
          n == Cardinality(SynapsesOn(segment))
      IN /\ ~r.failed
         /\ ConnectedIn(r, segment) >= Min2(k, n)
         /\ r.segments_[segment].numConnected = ConnectedIn(r, segment)
         /\ SameHandles(r)
         /\ \A y \in LiveSynapses(State) \ SynapsesOn(segment) : SameSynapse(r, y)
         /\ IF k = 0 \/ n = 0 \/ segments_[segment].numConnected >= k
              THEN r = Observed
              ELSE \A y \in SynapsesOn(segment) :
                     r.synapses_[y].permanence
                       = Min2(synapses_[y].permanence
                                + Max2(0, connectedThreshold_
                                            - NthGreatest(segment, Min2(k, n))),
                              maxPermanence)

\* C14 witness: a segment has three synapses of different permanences, one
\* of them connected, and raisePermanencesToThreshold(segment, 2) connects a
\* second one and leaves the third below the threshold.
C14_Witness ==
  \E segment \in LiveSegments(State) :
    /\ Cardinality({synapses_[y].permanence : y \in SynapsesOn(segment)}) = 3
    /\ segments_[segment].numConnected = 1
    /\ \E arranged \in Arrangements_(State, segment, 2) :
         ConnectedIn(raisePermanencesToThreshold(State, segment, 2, arranged), segment) = 2
\* C15: after synapseCompetition(segment, min, max) with 0 < max and
\* min <= max on a segment that has synapses, numConnected of the segment
\* lies in [min, max].
C15_CompetitionInRange ==
  \A segment \in LiveSegments(State), maximumSynapses \in 1..MaxSynapsesFine :
    \A minimumSynapses \in 0..maximumSynapses :
      SynapsesOn(segment) # {} =>
        LET r == synapseCompetition(State, segment, minimumSynapses, maximumSynapses)
        IN /\ minimumSynapses <= r.segments_[segment].numConnected
           /\ r.segments_[segment].numConnected <= maximumSynapses

\* The part of C15 that the code keeps: numConnected of a segment with at
\* least min synapses of pairwise different permanences lies in [min, max].
C15_DistinctPermanences ==
  \A segment \in LiveSegments(State), maximumSynapses \in 1..MaxSynapsesFine :
    \A minimumSynapses \in 0..maximumSynapses :
      (/\ Cardinality(SynapsesOn(segment)) >= Max2(minimumSynapses, 1)
       /\ Cardinality({synapses_[y].permanence : y \in SynapsesOn(segment)})
            = Cardinality(SynapsesOn(segment))) =>
        LET r == synapseCompetition(State, segment, minimumSynapses, maximumSynapses)
        IN /\ minimumSynapses <= r.segments_[segment].numConnected
           /\ r.segments_[segment].numConnected <= maximumSynapses
\* The growSynapses calls whose outcome is stated: <<segment, candidates,
\* candidates as shuffled, maxNew, maxSynapsesPerSegment>>, the segment
\* holding at most maxSynapsesPerSegment synapses; initialPermanence is 0.25.
GrowCasesOf(segment) ==
  UNION {{<<segment, h[1], shuffled, h[2], h[3]>> :
            shuffled \in Shuffles_(h[1], h[2])} :
         h \in {k \in FineCellLists(2) \X (0..1) \X {0, 2} :
                  k[3] > 0 => numSynapses(State, segment) <= k[3]}}
GrowCases == UNION {GrowCasesOf(segment) : segment \in LiveSegments(State)}
Grown(g) == growSynapses(Observed, g[1], g[2], 2500, g[3], g[4], g[5])

\* C16: growSynapses creates at most maxNew synapses when maxNew > 0 and at
\* most one per distinct candidate when maxNew = 0; every synapse it creates
\* is on the segment, from a presynaptic cell of the candidates, and has
\* permanence initialPermanence; with maxSynapsesPerSegment > 0 the segment
\* holds at most maxSynapsesPerSegment synapses afterwards.
C16_GrowSynapsesBounded ==
  \A g \in GrowCases :
    LET r == Grown(g)
        at == {j \in 1..Len(r.events) : r.events[j].type = "onCreateSynapse"}
    IN /\ ~r.failed
       /\ g[4] > 0 => Cardinality(at) <= g[4]
       /\ Cardinality(at) <= Cardinality(SeqToSet(g[2]))
       /\ \A i \in at, j \in at :
            i # j => /\ r.events[i].id # r.events[j].id
                     /\ r.synapses_[r.events[i].id].presynapticCell
                          # r.synapses_[r.events[j].id].presynapticCell
       /\ \A i \in at :
            /\ r.events[i].id \in SeqToSet(r.segments_[g[1]].synapses)
            /\ r.synapses_[r.events[i].id].segment = g[1]
            /\ r.synapses_[r.events[i].id].presynapticCell \in SeqToSet(g[2])
            /\ r.synapses_[r.events[i].id].permanence = 2500
       /\ g[5] > 0 => numSynapses(r, g[1]) <= g[5]

\* C16 witness: the segment is full, and a growSynapses call with maxNew = 1
\* and two candidates destroys a synapse and creates one.
C16_Witness ==
  \E g \in GrowCases :
    /\ g[4] = 1 /\ g[5] = 2
    /\ Cardinality(SeqToSet(g[2])) = 2
    /\ numSynapses(State, g[1]) = 2
    /\ Cardinality(DestroyedBy(Grown(g), "onDestroySynapse")) = 1
    /\ Cardinality(DestroyedBy(Grown(g), "onCreateSynapse")) = 1

\* C17: no synapse that growSynapses destroys to make room has its
\* presynaptic cell among the candidates.
C17_GrowKeepsCandidates ==
  \A g \in GrowCases :
    \A y \in DestroyedBy(Grown(g), "onDestroySynapse") :
      synapses_[y].presynapticCell \notin SeqToSet(g[2])

\* The part of C17 that the code keeps: candidates given in ascending order.
C17_SortedCandidates ==
  \A g \in GrowCases :
    (\A i \in 1..Len(g[2]), j \in 1..Len(g[2]) : i < j => g[2][i] <= g[2][j]) =>
      \A y \in DestroyedBy(Grown(g), "onDestroySynapse") :
        synapses_[y].presynapticCell \notin SeqToSet(g[2])
\* The instance after two more calls, createSegment(0, 2) and createSynapse
\* on the new segment from presynaptic cell c, with the two handles returned.
WithAnotherSegment(c) ==
  LET more(t) ==
        LET grown == createSynapse(t, t.ret, c, 2500)
        IN [s |-> grown, segment |-> t.ret, synapse |-> grown.ret]
  IN more(createSegment(Observed, 1, 2))

\* The synapses of the segment that destroyMinPermanenceSynapses may
\* destroy, and the order in which it takes them.
Eligible(segment, excludeCells) ==
  {y \in SynapsesOn(segment) : synapses_[y].presynapticCell \notin SeqToSet(excludeCells)}
WeakerThan(y, z) ==
  \/ synapses_[y].permanence < synapses_[z].permanence
  \/ synapses_[y].permanence = synapses_[z].permanence /\ y < z
Weakest(segment, n, excludeCells) ==
  {y \in Eligible(segment, excludeCells) :
     Cardinality({z \in Eligible(segment, excludeCells) : WeakerThan(z, y)}) < n}

\* C18: destroyMinPermanenceSynapses(segment, n, excludeCells), excludeCells
\* sorted, destroys exactly the first min(n, number eligible) eligible
\* synapses of the segment in ascending order of permanence, then handle,
\* in that order; the other synapses of the segment, and another segment
\* with a synapse from presynaptic cell 0, are unchanged.
C18_DestroyMinPermanence ==
  \A segment \in LiveSegments(State) :
    LET w == WithAnotherSegment(1)
    IN \A n \in 0..MaxSynapsesFine, excludeCells \in FineSortedCellLists :
         LET r == destroyMinPermanenceSynapses(w.s, segment, n, excludeCells)
             at == {j \in 1..Len(r.events) : r.events[j].type = "onDestroySynapse"}
             gone == Weakest(segment, n, excludeCells)
         IN /\ ~r.failed
            /\ Cardinality(gone) = Min2(n, Cardinality(Eligible(segment, excludeCells)))
            /\ DestroyedBy(r, "onDestroySynapse") = gone
            /\ \A i \in at, j \in at :
                 i < j => WeakerThan(r.events[i].id, r.events[j].id)
            /\ SeqToSet(r.segments_[segment].synapses) = SynapsesOn(segment) \ gone
            /\ LiveSynapses(r) = LiveSynapses(w.s) \ gone
            /\ \A y \in SynapsesOn(segment) \ gone : SameSynapse(r, y)
            /\ r.segments_[segment].numConnected = ConnectedIn(r, segment)
            /\ LiveSegments(r) = LiveSegments(w.s)
            /\ r.cells_ = w.s.cells_
            /\ r.segments_[w.segment] = w.s.segments_[w.segment]
            /\ r.synapses_[w.synapse].segment = w.segment
            /\ r.synapses_[w.synapse].presynapticCell = 1
            /\ r.synapses_[w.synapse].permanence = w.s.synapses_[w.synapse].permanence

\* C18 witness: of three synapses the weakest is excluded and the other two
\* have the same permanence; the call with n = 1 destroys the lower handle
\* of the two, which is not the first of them on the segment's list.
C18_Witness ==
  \E segment \in LiveSegments(State), excludeCells \in FineSortedCellLists :
    \E y \in SynapsesOn(segment), z \in SynapsesOn(segment) :
      /\ Cardinality(SynapsesOn(segment)) = 3
      /\ Eligible(segment, excludeCells) = {y, z}
      /\ y < z
      /\ synapses_[y].permanence = synapses_[z].permanence
      /\ \E x \in SynapsesOn(segment) : synapses_[x].permanence < synapses_[y].permanence
      /\ \E i \in 1..3, j \in 1..3 :
           i < j /\ segments_[segment].synapses[i] = z /\ segments_[segment].synapses[j] = y
      /\ y \in DestroyedSynapses(destroyMinPermanenceSynapses(State, segment, 1, excludeCells))
      /\ z \in LiveSynapses(destroyMinPermanenceSynapses(State, segment, 1, excludeCells))
\* C19: the potential overload of computeActivity returns, for every slot
\* of segments_, the number of connected synapses of the segment from the
\* active cells and fills out_potential with the number of all its synapses
\* from the active cells (0 and 0 for a destroyed slot), so that
\* out_potential[s] >= connected[s]; in time-series mode the call moves the
\* current updates to the previous ones and clears the current ones, once;
\* nothing else changes.
C19_ComputeActivityPotential ==
  \A activePresynapticCells \in CellLists :
    LET r == computeActivityPotential(State, activePresynapticCells)
        A == SeqToSet(activePresynapticCells)
    IN /\ DOMAIN r.ret = 1..Len(segments_)
       /\ DOMAIN r.numActivePotentialSynapsesForSegment = 1..Len(segments_)
       /\ r.ret = computeActivity(State, activePresynapticCells)
       /\ \A h \in 1..Len(segments_) :
            /\ r.ret[h] = IF h \in LiveSegments(State) THEN ConnectedOn(h, A) ELSE 0
            /\ r.numActivePotentialSynapsesForSegment[h]
                 = IF h \in LiveSegments(State)
                     THEN Cardinality({y \in SynapsesOn(h) :
                                         synapses_[y].presynapticCell \in A})
                     ELSE 0
            /\ r.numActivePotentialSynapsesForSegment[h] >= r.ret[h]
       /\ r.after = IF timeseries_
                      THEN [State EXCEPT !.previousUpdates_ = currentUpdates_,
                                         !.currentUpdates_ = <<>>]
                      ELSE State

\* C19 witness: in time-series mode, with updates recorded that differ from
\* the previous ones, a segment has a connected and a potential synapse
\* from the active cells.
C19_Witness ==
  /\ timeseries_
  /\ currentUpdates_ # <<>>
  /\ currentUpdates_ # previousUpdates_
  /\ \E h \in LiveSegments(State) :
       LET r == computeActivityPotential(State, <<1, 2>>)
       IN /\ r.ret[h] = 1
          /\ r.numActivePotentialSynapsesForSegment[h] = 2
\* The instance with an inspecting handler subscribed.
Inspected == subscribe(State, InspectingHandler)

\* The invariants of the data structure on the instance t: segments and
\* synapses are owned once, by the owner their slot names; numConnected
\* counts the connected synapses; every live synapse is in the presynaptic
\* list matching its permanence, at presynapticMapIndex_, and in no other;
\* no segment has two synapses from one cell; permanences are in range.
Consistent(t) ==
  LET synMaps == <<t.potentialSynapsesForPresynapticCell_,
                   t.connectedSynapsesForPresynapticCell_>>
      segMaps == <<t.potentialSegmentsForPresynapticCell_,
                   t.connectedSegmentsForPresynapticCell_>>
      connected(y) == t.synapses_[y].permanence >= t.connectedThreshold_
  IN /\ \A h \in LiveSegments(t) :
          /\ t.segments_[h].cell \in DOMAIN t.cells_
          /\ \A c \in DOMAIN t.cells_ :
               Count(t.cells_[c], h) = IF c = t.segments_[h].cell THEN 1 ELSE 0
          /\ t.segments_[h].numConnected
               = Cardinality({i \in 1..Len(t.segments_[h].synapses) :
                                connected(t.segments_[h].synapses[i])})
          /\ \A i \in 1..Len(t.segments_[h].synapses),
                j \in 1..Len(t.segments_[h].synapses) :
               i # j => t.synapses_[t.segments_[h].synapses[i]].presynapticCell
                          # t.synapses_[t.segments_[h].synapses[j]].presynapticCell
     /\ \A y \in LiveSynapses(t) :
          LET own   == IF connected(y) THEN 2 ELSE 1
              c     == t.synapses_[y].presynapticCell
              index == t.synapses_[y].presynapticMapIndex_
          IN /\ t.synapses_[y].segment \in LiveSegments(t)
             /\ \A h \in 1..Len(t.segments_) :
                  Count(t.segments_[h].synapses, y)
                    = IF h = t.synapses_[y].segment THEN 1 ELSE 0
             /\ Has(synMaps[own], c) /\ Has(segMaps[own], c)
             /\ index \in 1..Len(synMaps[own][c])
             /\ index \in 1..Len(segMaps[own][c])
             /\ synMaps[own][c][index] = y
             /\ segMaps[own][c][index] = t.synapses_[y].segment
             /\ \A m \in 1..2 : \A d \in DOMAIN synMaps[m] :
                  Count(synMaps[m][d], y) = IF m = own /\ d = c THEN 1 ELSE 0
             /\ minPermanence <= t.synapses_[y].permanence
             /\ t.synapses_[y].permanence <= maxPermanence

\* The event e reached the inspecting handler at a consistent point: the
\* invariants held; a destroy event named a handle that was still live and
\* listed by its owner; a create or update event named a live handle.
AtConsistentPoint(e) ==
  /\ Consistent(e.seen)
  /\ e.type \in {"onDestroySegment", "onCreateSegment"}
       => /\ e.id \in LiveSegments(e.seen)
          /\ Count(e.seen.cells_[e.seen.segments_[e.id].cell], e.id) = 1
  /\ e.type \in {"onDestroySynapse", "onCreateSynapse", "onUpdateSynapsePermanence"}
       => /\ e.id \in LiveSynapses(e.seen)
          /\ Count(e.seen.segments_[e.seen.synapses_[e.id].segment].synapses, e.id) = 1
  /\ e.type = "onUpdateSynapsePermanence"
       => e.seen.synapses_[e.id].permanence = e.permanence

\* Every event of the call that left r was delivered at a consistent point.
EventsConsistent(r) == \A i \in 1..Len(r.events) : AtConsistentPoint(r.events[i])

\* C20: every event reaches the handlers at a consistent point: the destroy
\* events before the instance is changed for that destruction, the create
\* and update events when all the invariants hold, the named synapse with
\* its permanence in range and in the presynaptic list matching it.
C20_EventsAtConsistentPoints ==
  /\ \A r \in CreateSegmentCalls(Inspected) : EventsConsistent(r)
  /\ \A r \in CreateSynapseCalls(Inspected) : EventsConsistent(r)
  /\ \A r \in UpdateSynapsePermanenceCalls(Inspected) : EventsConsistent(r)
  /\ \A r \in DestroySegmentCalls(Inspected) :
       EventsConsistent(r) /\ r.events[1].seen = Instance(Inspected)
  /\ \A r \in DestroySynapseCalls(Inspected) :
       EventsConsistent(r) /\ r.events[1].seen = Instance(Inspected)
  /\ \A r \in AdaptSegmentCalls(Inspected) : EventsConsistent(r)

\* Every event other than onCreateSynapse is delivered at a consistent
\* point.
C20_OtherEvents ==
  LET others(r) ==
        \A i \in 1..Len(r.events) :
          r.events[i].type # "onCreateSynapse" => AtConsistentPoint(r.events[i])
  IN /\ \A r \in CreateSegmentCalls(Inspected) : others(r)
     /\ \A r \in CreateSynapseCalls(Inspected) : others(r)
     /\ \A r \in UpdateSynapsePermanenceCalls(Inspected) : others(r)
     /\ \A r \in DestroySegmentCalls(Inspected) :
          others(r) /\ r.events[1].seen = Instance(Inspected)
     /\ \A r \in DestroySynapseCalls(Inspected) :
          others(r) /\ r.events[1].seen = Instance(Inspected)
     /\ \A r \in AdaptSegmentCalls(Inspected) : others(r)

\* The inspecting handler saw, in onCreateSynapse, the new synapse with a
\* permanence below minPermanence.
C20_PlaceholderSeen ==
  \E r \in CreateSynapseCalls(Inspected) :
    \E i \in 1..Len(r.events) :
      /\ r.events[i].type = "onCreateSynapse"
      /\ r.events[i].seen.synapses_[r.events[i].id].permanence < minPermanence
      /\ r.synapses_[r.events[i].id].permanence >= r.connectedThreshold_

\* The number of events of the given type the call that left r delivered to
\* the observer.
Delivered(r, type) ==
  Cardinality({j \in 1..Len(r.events) : r.events[j].type = type})

\* C21: capacity-driven pruning is accounted in the counters: createSegment
\* adds to prunedSegs_ the number of segments it destroyed, and growSynapses
\* and destroyMinPermanenceSynapses add to prunedSyns_ the number of
\* synapses they destroyed.
C21_PruningCounted ==
  /\ \A r \in CreateSegmentCalls(Observed) :
       r.prunedSegs_ = prunedSegs_ + Delivered(r, "onDestroySegment")
  /\ \A r \in DestroyMinPermanenceSynapsesCalls(Observed) :
       r.prunedSyns_ = prunedSyns_ + Delivered(r, "onDestroySynapse")
  /\ \A r \in GrowSynapsesCalls(Observed) :
       r.prunedSyns_ = prunedSyns_ + Delivered(r, "onDestroySynapse")

\* createSegment, destroyMinPermanenceSynapses and growSynapses leave both
\* counters as they were.
C21_CountersUntouched ==
  \A r \in CreateSegmentCalls(Observed)
             \cup DestroyMinPermanenceSynapsesCalls(Observed)
             \cup GrowSynapsesCalls(Observed) :
    r.prunedSegs_ = prunedSegs_ /\ r.prunedSyns_ = prunedSyns_

\* createSegment on a full cell, or growSynapses on a full segment,
\* destroyed something.
C21_PrunedUncounted ==
  /\ \E r \in CreateSegmentCalls(Observed) : Delivered(r, "onDestroySegment") > 0
  /\ \E r \in GrowSynapsesCalls(Observed) : Delivered(r, "onDestroySynapse") > 0

\* ============================================================ SpatialPooler
\* Model of htm::SpatialPooler (src/src/htm/algorithms/SpatialPooler.cpp) for
\* one-dimensional inputs and columns.  Columns, inputs and segments are
\* 1-based: column c of the code is c+1 here, and the segment of a column
\* has the column's number.  A Real that is not a permanence is an exact
\* fraction [n |-> numerator, d |-> denominator] in lowest terms, d > 0.

\* ---------------------------------------------------------------- bounds
NumColumns == 3
NumInputs == 3
MaxIterations == 2

\* -------------------------------------------------------- 32-bit counters
\* A UInt counter u is kept as u - 2^31, which TLC's integers hold over the
\* whole range 0 .. 2^32 - 1; UIntBias is 2^31 - 1.
UIntBias == 2147483647
\* The counter with the small value u.
UInt(u) == u - UIntBias - 1
\* The largest value of a counter, std::numeric_limits<UInt>::max().
UIntMax == UIntBias
\* u++ on a counter: it wraps to 0.
Increment(v) == IF v = UIntMax THEN UInt(0) ELSE v + 1
\* std::min(k, u) of a small value k and a counter.
MinWith(k, v) == IF v <= UInt(k) THEN v + UIntBias + 1 ELSE k
\* u % m of a counter and a small value m > 0.
Modulo(v, m) == ((v % m) + (((UIntBias % m) + 1) % m)) % m

\* ------------------------------------------------------------ fractions
RECURSIVE GCD(_, _)
GCD(a, b) == IF b = 0 THEN a ELSE GCD(b, a % b)
Abs(a) == IF a < 0 THEN 0 - a ELSE a

\* A division by zero gives what IEEE 754 gives: an infinity [n |-> 1 or -1,
\* d |-> 0], or NaN [n |-> 0, d |-> 0], which compares false with everything.
Frac(n, d) ==
  IF d = 0 THEN [n |-> IF n > 0 THEN 1 ELSE IF n < 0 THEN 0 - 1 ELSE 0, d |-> 0]
  ELSE LET g == GCD(Abs(n), d)
       IN [n |-> n \div g, d |-> d \div g]
Whole(i) == [n |-> i, d |-> 1]
Infinity == [n |-> 1, d |-> 0]
NaN == [n |-> 0, d |-> 0]
IsFinite(a) == a.d # 0
FracMul(a, b) == Frac(a.n * b.n, a.d * b.d)
FracAdd(a, b) ==
  IF IsFinite(a) /\ IsFinite(b) THEN Frac(a.n * b.d + b.n * a.d, a.d * b.d)
  ELSE IF a = NaN \/ b = NaN THEN NaN
  ELSE IF ~IsFinite(a) /\ ~IsFinite(b) THEN (IF a = b THEN a ELSE NaN)
  ELSE IF IsFinite(a) THEN b ELSE a
FracLess(a, b) == a.n * b.d < b.n * a.d
FracMin(a, b) == IF FracLess(b, a) THEN b ELSE a
FracMax(a, b) == IF FracLess(a, b) THEN b ELSE a
\* static_cast<UInt>(x) of a fraction x >= 0: the integer part.
Truncate(a) == a.n \div a.d
\* round(x) of a fraction x >= 0: halves go up.
Round(a) == (2 * a.n + a.d) \div (2 * a.d)
\* A permanence (units of Epsilon) as a fraction of 1.0.
PermFrac(p) == Frac(p, maxPermanence)

\* updatePeriod_ as initialize sets it.
DefaultUpdatePeriod == 50

\* MAX_LOCALAREADENSITY, the cap of the density derived from
\* numActiveColumnsPerInhArea.
MAX_LOCALAREADENSITY == Frac(1, 2)

\* --------------------------------------------------------------- topology
\* Neighborhood(center, radius, {dimension}, wrap, skip_center) in one
\* dimension: the cells within radius of the center, around the ends when
\* wrapping, each cell once.
Neighborhood(center, radius, dimension, wrap, skipCenter) ==
  LET near == IF wrap
                THEN {((center - 1 + o + 2 * dimension * (radius + 1)) % dimension) + 1 :
                        o \in (0 - radius)..radius}
                ELSE {x \in 1..dimension : Abs(x - center) <= radius}
  IN IF skipCenter THEN near \ {center} ELSE near

\* getAreaND_: the number of columns within `radius` in one dimension.
getAreaND_(dimension, radius) == Min2(dimension, 2 * radius + 1)

\* SpatialPooler::initMapColumn_: the input at the centre of the column's
\* potential pool, floor((column + 0.5) * numInputs / numColumns).
initMapColumn_(p, column) ==
  (((2 * (column - 1) + 1) * p.numInputs_) \div (2 * p.numColumns_)) + 1

\* The size of the potential pool in initMapPotential_:
\* round(columnInputs.size() * potentialPct_).
numPotential_(size, potentialPct) ==
  Round(FracMul(Whole(size), potentialPct))

\* SpatialPooler::initMapPotential_: the pools rng_.sample can return, as
\* sets of inputs.
initMapPotential_(p, column, wrapAround) ==
  LET columnInputs ==
        Neighborhood(initMapColumn_(p, column), p.potentialRadius_,
                     p.numInputs_, wrapAround, FALSE)
      numPotential == numPotential_(Cardinality(columnInputs), p.potentialPct_)
  IN {selected \in SUBSET columnInputs : Cardinality(selected) = numPotential}

\* ---------------------------------------------------------------- setters
\* Every operation of the pooler takes and returns the pooler as a record p
\* whose field connections_ is its Connections instance; p.failed tells
\* that the call threw (NTA_CHECK), and then nothing was assigned.

\* SpatialPooler::setNumActiveColumnsPerInhArea.
setNumActiveColumnsPerInhArea(p, numActiveColumnsPerInhArea) ==
  IF ~(numActiveColumnsPerInhArea > 0 /\ numActiveColumnsPerInhArea <= p.numColumns_)
    THEN [p EXCEPT !.failed = TRUE]
    ELSE [p EXCEPT !.numActiveColumnsPerInhArea_ = numActiveColumnsPerInhArea,
                   !.localAreaDensity_ = Whole(0)]

\* A variant of setLocalAreaDensity that leaves numActiveColumnsPerInhArea_
\* as it is.
setLocalAreaDensityOnly_(p, localAreaDensity) ==
  IF ~(FracLess(Whole(0), localAreaDensity) /\ ~FracLess(Whole(1), localAreaDensity))
    THEN [p EXCEPT !.failed = TRUE]
  ELSE IF ~(Truncate(FracMul(localAreaDensity, Whole(p.numColumns_))) > 0)
    THEN [p EXCEPT !.failed = TRUE]
  ELSE [p EXCEPT !.localAreaDensity_ = localAreaDensity]

\* SpatialPooler::setLocalAreaDensity.
setLocalAreaDensity(p, localAreaDensity) ==
  IF ~(FracLess(Whole(0), localAreaDensity) /\ ~FracLess(Whole(1), localAreaDensity))
    THEN [p EXCEPT !.failed = TRUE]
  ELSE IF ~(Truncate(FracMul(localAreaDensity, Whole(p.numColumns_))) > 0)
    THEN [p EXCEPT !.failed = TRUE]
  ELSE [p EXCEPT !.localAreaDensity_ = localAreaDensity,
                 !.numActiveColumnsPerInhArea_ = 0]

\* SpatialPooler::setStimulusThreshold, setDutyCyclePeriod, setIterationNum,
\* setIterationLearnNum, setUpdatePeriod, setBoostFactors,
\* setGlobalInhibition: plain assignments.
setStimulusThreshold(p, stimulusThreshold) ==
  [p EXCEPT !.stimulusThreshold_ = stimulusThreshold]
setDutyCyclePeriod(p, dutyCyclePeriod) ==
  [p EXCEPT !.dutyCyclePeriod_ = dutyCyclePeriod]
setIterationNum(p, iterationNum) ==
  [p EXCEPT !.iterationNum_ = iterationNum]
setIterationLearnNum(p, iterationLearnNum) ==
  [p EXCEPT !.iterationLearnNum_ = iterationLearnNum]
setUpdatePeriod(p, updatePeriod) ==
  [p EXCEPT !.updatePeriod_ = updatePeriod]
setBoostFactors(p, boostFactors) ==
  [p EXCEPT !.boostFactors_ = boostFactors]
setGlobalInhibition(p, globalInhibition) ==
  [p EXCEPT !.globalInhibition_ = globalInhibition]

\* SpatialPooler::setInhibitionRadius: the neighbour map is rebuilt when the
\* radius changes (Neighborhood::updateAllNeighbors, centre skipped).
setInhibitionRadius(p, inhibitionRadius) ==
  IF p.inhibitionRadius_ = inhibitionRadius THEN p
  ELSE [p EXCEPT
          !.inhibitionRadius_ = inhibitionRadius,
          !.neighborMap_ =
             [c \in 1..p.numColumns_ |->
                Neighborhood(c, inhibitionRadius, p.numColumns_, p.wrapAround_, TRUE)]]

\* SpatialPooler::getPermanence: the dense vector of the permanences of the
\* column's synapses that are at or above `threshold`, 0 elsewhere.
getPermanence(p, column, threshold) ==
  LET c == p.connections_
      syns == c.segments_[column].synapses
      at(i) == {k \in 1..Len(syns) :
                  /\ c.synapses_[syns[k]].presynapticCell = i
                  /\ c.synapses_[syns[k]].permanence >= threshold}
  IN [i \in 1..p.numInputs_ |->
        IF at(i) = {} THEN 0
        ELSE c.synapses_[syns[CHOOSE k \in at(i) : \A m \in at(i) : m <= k]].permanence]

\* SpatialPooler::avgConnectedSpanForColumnND_ in one dimension.
avgConnectedSpanForColumnND_(p, column) ==
  LET connectedDense == getPermanence(p, column, p.synPermConnected_ + Epsilon)
      spanned == {i \in 1..p.numInputs_ : ~(connectedDense[i] < p.synPermConnected_)}
      maxCoord == CHOOSE i \in spanned : \A j \in spanned : j <= i
      minCoord == CHOOSE i \in spanned : \A j \in spanned : i <= j
  IN IF spanned = {} THEN 0 ELSE maxCoord - minCoord + 1

\* The sum of avgConnectedSpanForColumnND_ over the columns from i on.
RECURSIVE connectedSpanSum_(_, _)
connectedSpanSum_(p, i) ==
  IF i > p.numColumns_ THEN 0
  ELSE avgConnectedSpanForColumnND_(p, i) + connectedSpanSum_(p, i + 1)

\* SpatialPooler::avgColumnsPerInput_ in one dimension.
avgColumnsPerInput_(p) == Frac(p.numColumns_, p.numInputs_)

\* SpatialPooler::updateInhibitionRadius_.
updateInhibitionRadius_(p) ==
  IF p.globalInhibition_ THEN setInhibitionRadius(p, p.numColumns_)
  ELSE
    LET connectedSpan == Frac(connectedSpanSum_(p, 1), p.numColumns_)
        diameter == FracMul(connectedSpan, avgColumnsPerInput_(p))
        radius == FracMul(FracAdd(diameter, Whole(0 - 1)), Frac(1, 2))
    IN setInhibitionRadius(p, Round(FracMax(Whole(1), radius)))

\* ------------------------------------------------------------- initialize
\* Connections::initialize as a record: an instance without cells' segments
\* (no handler, the release build, no time series).
NewConnections(numCells, connectedThreshold) ==
  [ cells_ |-> [c \in 1..numCells |-> <<>>],
    segments_ |-> <<>>,
    destroyedSegments_ |-> <<>>,
    synapses_ |-> <<>>,
    destroyedSynapses_ |-> <<>>,
    potentialSynapsesForPresynapticCell_ |-> <<>>,
    potentialSegmentsForPresynapticCell_ |-> <<>>,
    connectedSynapsesForPresynapticCell_ |-> <<>>,
    connectedSegmentsForPresynapticCell_ |-> <<>>,
    connectedThreshold_ |-> connectedThreshold - Epsilon,
    timeseries_ |-> FALSE,
    previousUpdates_ |-> <<>>,
    currentUpdates_ |-> <<>>,
    prunedSyns_ |-> 0,
    prunedSegs_ |-> 0,
    eventHandlers_ |-> {},
    assertionsOn |-> FALSE,
    events |-> <<>>,
    ret |-> 0,
    failed |-> FALSE ]

\* The values rng_.realRange is taken to return in initPermConnected_ and
\* initPermNonConnected_: the middle of [synPermConnected_, maxPermanence]
\* and of [minPermanence, synPermConnected_].
initPermConnected_(p) == {(p.synPermConnected_ + maxPermanence) \div 2}
initPermNonConnected_(p) == {(minPermanence + p.synPermConnected_) \div 2}

\* SpatialPooler::initPermanence_: the dense vectors it can return for the
\* pool `potential`; rng_.getReal64() <= connectedPct decides each synapse.
initPermanence_(p, potential, connectedPct) ==
  LET draws ==
        (IF FracLess(Whole(0), connectedPct) THEN initPermConnected_(p) ELSE {})
        \cup (IF FracLess(connectedPct, Whole(1)) THEN initPermNonConnected_(p) ELSE {})
  IN {perm \in [1..p.numInputs_ -> draws \cup {0}] :
        \A i \in 1..p.numInputs_ :
          IF i \in potential THEN perm[i] \in draws ELSE perm[i] = 0}

\* for (presyn ...) if (potential[presyn]) createSynapse(column, presyn,
\* perm[presyn]), from input presyn on.
RECURSIVE createPool_(_, _, _, _, _)
createPool_(c, column, potential, perm, presyn) ==
  IF presyn > Len(perm) THEN c
  ELSE createPool_(
         IF presyn \in potential THEN createSynapse(c, column, presyn, perm[presyn])
         ELSE c,
         column, potential, perm, presyn + 1)

\* A variant of initColumn_ without the call of
\* raisePermanencesToThreshold.
initColumnUnraised_(p, column) ==
  LET created == createSegment(p.connections_, column, 1)
      pools == initMapPotential_(p, column, p.wrapAround_)
  IN UNION {{[p EXCEPT !.connections_ =
                createPool_(created, column, potential, perm, 1)] :
               perm \in initPermanence_(p, potential, p.initConnectedPct_)} :
            potential \in pools}

\* The body of the loop of initialize for one column: the poolers it can
\* leave, one per draw of the pool and of the permanences and per
\* arrangement raisePermanencesToThreshold is left with.
initColumn_(p, column) ==
  LET created == createSegment(p.connections_, column, 1)
      pools == initMapPotential_(p, column, p.wrapAround_)
      filled == UNION {{createPool_(created, column, potential, perm, 1) :
                          perm \in initPermanence_(p, potential, p.initConnectedPct_)} :
                       potential \in pools}
  IN UNION {{[p EXCEPT !.connections_ =
                raisePermanencesToThreshold(c, column, p.stimulusThreshold_, arranged)] :
               arranged \in Arrangements_(c, column, p.stimulusThreshold_)} :
            c \in filled}

\* The loop of initialize over the columns from `column` on, for every
\* pooler of the set P.
RECURSIVE initColumns_(_, _, _)
initColumns_(P, column, numColumns) ==
  IF column > numColumns THEN P
  ELSE initColumns_(UNION {initColumn_(p, column) : p \in P}, column + 1, numColumns)

\* SpatialPooler::initialize with one-dimensional shapes: the poolers it can
\* construct, or the one record with failed set when a check throws.
initialize(cfg) ==
  LET thrown == [failed |-> TRUE,
                 numColumns_ |-> cfg.numColumns,
                 numInputs_ |-> cfg.numInputs,
                 localAreaDensity_ |-> Whole(0),
                 numActiveColumnsPerInhArea_ |-> 0]
      shaped == [thrown EXCEPT !.failed = FALSE]
      sparsity ==
        IF cfg.numActiveColumnsPerInhArea > 0
          THEN setNumActiveColumnsPerInhArea(shaped, cfg.numActiveColumnsPerInhArea)
          ELSE setLocalAreaDensity(shaped, cfg.localAreaDensity)
      assigned ==
        [ failed |-> FALSE,
          numInputs_ |-> cfg.numInputs,
          numColumns_ |-> cfg.numColumns,
          localAreaDensity_ |-> sparsity.localAreaDensity_,
          numActiveColumnsPerInhArea_ |-> sparsity.numActiveColumnsPerInhArea_,
          potentialRadius_ |-> Min2(cfg.potentialRadius, cfg.numInputs),
          potentialPct_ |-> cfg.potentialPct,
          globalInhibition_ |-> cfg.globalInhibition,
          stimulusThreshold_ |-> cfg.stimulusThreshold,
          synPermInactiveDec_ |-> cfg.synPermInactiveDec,
          synPermActiveInc_ |-> cfg.synPermActiveInc,
          synPermBelowStimulusInc_ |-> cfg.synPermConnected \div 10,
          synPermConnected_ |-> cfg.synPermConnected,
          minPctOverlapDutyCycles_ |-> cfg.minPctOverlapDutyCycles,
          dutyCyclePeriod_ |-> cfg.dutyCyclePeriod,
          boostStrength_ |-> cfg.boostStrength,
          wrapAround_ |-> cfg.wrapAround,
          updatePeriod_ |-> DefaultUpdatePeriod,
          initConnectedPct_ |-> Frac(1, 2),
          iterationNum_ |-> UInt(0),
          iterationLearnNum_ |-> UInt(0),
          overlapDutyCycles_ |-> [c \in 1..cfg.numColumns |-> Whole(0)],
          activeDutyCycles_ |-> [c \in 1..cfg.numColumns |-> Whole(0)],
          minOverlapDutyCycles_ |-> [c \in 1..cfg.numColumns |-> Whole(0)],
          boostFactors_ |-> [c \in 1..cfg.numColumns |-> Whole(1)],
          boostedOverlaps_ |-> [c \in 1..cfg.numColumns |-> Whole(0)],
          inhibitionRadius_ |-> 0,
          neighborMap_ |-> <<>>,
          connections_ |-> [NewConnections(cfg.numColumns, cfg.synPermConnected)
                             EXCEPT !.assertionsOn = cfg.assertions],
          \* what the last compute wrote to `active`, what it returned, and
          \* whether it ran the update round
          active |-> <<>>,
          overlaps |-> <<>>,
          updateRound |-> FALSE ]
  IN IF ~(cfg.numInputs > 0 /\ cfg.numColumns > 0) THEN {thrown}
     ELSE IF ~(\/ (cfg.numActiveColumnsPerInhArea > 0 /\ cfg.localAreaDensity = Whole(0))
               \/ (FracLess(Whole(0), cfg.localAreaDensity)
                   /\ cfg.numActiveColumnsPerInhArea = 0))
       THEN {thrown}
     ELSE IF sparsity.failed THEN {thrown}
     ELSE IF ~(FracLess(Whole(0), cfg.potentialPct)
               /\ ~FracLess(Whole(1), cfg.potentialPct))
       THEN {thrown}
     ELSE {updateInhibitionRadius_(q) : q \in initColumns_({assigned}, 1, cfg.numColumns)}

\* ------------------------------------------------------------- inhibition
\* SpatialPooler::boostOverlaps_.
boostOverlaps_(p, overlaps) ==
  IF FracLess(p.boostStrength_, PermFrac(Epsilon))
    THEN [c \in 1..p.numColumns_ |-> Whole(overlaps[c])]
    ELSE [c \in 1..p.numColumns_ |-> FracMul(Whole(overlaps[c]), p.boostFactors_[c])]

\* The density inhibitColumns_ works with.
density_(p) ==
  IF p.numActiveColumnsPerInhArea_ > 0
    THEN FracMin(Frac(p.numActiveColumnsPerInhArea_,
                      getAreaND_(p.numColumns_, p.inhibitionRadius_)),
                 MAX_LOCALAREADENSITY)
    ELSE p.localAreaDensity_

\* A variant of compare_ without the comparison of the column numbers.
compareOverlapsOnly_(overlaps, a, b) == FracLess(overlaps[b], overlaps[a])

\* The lambda `compare` of inhibitColumnsGlobal_: column a goes before b.
compare_(overlaps, a, b) ==
  IF overlaps[a] = overlaps[b] THEN a > b ELSE FracLess(overlaps[b], overlaps[a])

\* What std::nth_element(begin, begin + n, end, compare) guarantees of the
\* arrangement `after` of the columns: no column from position n + 1 on
\* goes before one of the first n + 1, and position n + 1 holds the column a
\* full sort would put there.  Which arrangement results is left to the
\* library.
nthElementColumns_(overlaps, after, n) ==
  \A i \in 1..Len(after), j \in 1..Len(after) :
    (i <= n + 1 /\ j >= n + 1 /\ i < j) => ~compare_(overlaps, after[j], after[i])

\* The arrangements inhibitColumnsGlobal_ may be left with by nth_element.
ColumnArrangements_(overlaps, numDesired) ==
  LET iota == [c \in 1..Len(overlaps) |-> c]
  IN IF numDesired >= Len(overlaps) THEN {iota}
     ELSE {a \in Permutations_(iota) : nthElementColumns_(overlaps, a, numDesired)}

\* std::sort(begin, end, compare) of distinct columns: insertion of each
\* column behind those that go before it.
RECURSIVE sortColumns_(_, _)
sortColumns_(overlaps, q) ==
  IF Len(q) <= 1 THEN q
  ELSE LET rest == sortColumns_(overlaps, SubSeq(q, 2, Len(q)))
           ahead == Cardinality({i \in 1..Len(rest) : compare_(overlaps, rest[i], q[1])})
       IN SubSeq(rest, 1, ahead) \o <<q[1]>> \o SubSeq(rest, ahead + 1, Len(rest))

\* while (!activeColumns.empty() && overlaps[back] < stimulusThreshold_)
\*   activeColumns.pop_back();
RECURSIVE dropSubThreshold_(_, _, _)
dropSubThreshold_(overlaps, q, stimulusThreshold) ==
  IF Len(q) > 0 /\ FracLess(overlaps[Last(q)], Whole(stimulusThreshold))
    THEN dropSubThreshold_(overlaps, PopBack(q), stimulusThreshold)
    ELSE q

\* SpatialPooler::inhibitColumnsGlobal_; `arranged` is the order in which
\* std::nth_element leaves the columns.  The result has `failed` set when
\* NTA_CHECK(numDesired > 0) throws.
inhibitColumnsGlobal_(p, overlaps, density, arranged) ==
  LET numDesired == Truncate(FracMul(density, Whole(p.numColumns_)))
  IN IF ~(numDesired > 0) THEN [failed |-> TRUE, columns |-> <<>>]
     ELSE [failed |-> FALSE,
           columns |-> dropSubThreshold_(
                         overlaps,
                         sortColumns_(overlaps, SubSeq(arranged, 1, numDesired)),
                         p.stimulusThreshold_)]

\* The loop of inhibitColumnsLocal_ over the columns from `column` on;
\* `activeColumns` are the columns admitted so far (alreadyUsedColumn).
RECURSIVE inhibitLocalLoop_(_, _, _, _, _)
inhibitLocalLoop_(p, overlaps, density, column, activeColumns) ==
  IF column > p.numColumns_ THEN activeColumns
  ELSE IF FracLess(overlaps[column], Whole(p.stimulusThreshold_))
    THEN inhibitLocalLoop_(p, overlaps, density, column + 1, activeColumns)
  ELSE
    LET hood == p.neighborMap_[column]
        numDesiredLocalActive ==
          Truncate(FracAdd(Frac(1, 2),
                           FracMul(density, Whole(Cardinality(hood) + 1))))
        otherBigger ==
          Cardinality({neighbor \in hood :
                         \/ FracLess(overlaps[column], overlaps[neighbor])
                         \/ (overlaps[neighbor] = overlaps[column]
                             /\ neighbor \in SeqToSet(activeColumns))})
    IN inhibitLocalLoop_(
         p, overlaps, density, column + 1,
         IF otherBigger < numDesiredLocalActive
           THEN Append(activeColumns, column) ELSE activeColumns)

\* SpatialPooler::inhibitColumnsLocal_.
inhibitColumnsLocal_(p, overlaps, density) ==
  [failed |-> FALSE, columns |-> inhibitLocalLoop_(p, overlaps, density, 1, <<>>)]

\* The branch inhibitColumns_ takes.
inhibitsGlobally_(p) ==
  p.globalInhibition_ \/ p.inhibitionRadius_ > p.numColumns_

\* SpatialPooler::inhibitColumns_: the results it can return, one per
\* arrangement std::nth_element may leave.
inhibitColumns_(p, overlaps) ==
  IF inhibitsGlobally_(p)
    THEN {inhibitColumnsGlobal_(p, overlaps, density_(p), arranged) :
            arranged \in ColumnArrangements_(
                           overlaps,
                           Truncate(FracMul(density_(p), Whole(p.numColumns_))))}
    ELSE {inhibitColumnsLocal_(p, overlaps, density_(p))}

\* A variant of sortAscending_ that leaves the columns as inhibition wrote
\* them.
asInhibited_(q) == q

\* sort(activeVector.begin(), activeVector.end()): ascending columns.
RECURSIVE sortAscending_(_)
sortAscending_(q) ==
  IF Len(q) <= 1 THEN q
  ELSE LET rest == sortAscending_(SubSeq(q, 2, Len(q)))
           ahead == Cardinality({i \in 1..Len(rest) : rest[i] < q[1]})
       IN SubSeq(rest, 1, ahead) \o <<q[1]>> \o SubSeq(rest, ahead + 1, Len(rest))

\* --------------------------------------------------------------- learning
\* A variant of updateBookeepingVars_ that counts every call as learning.
updateBothVars_(p, learn) ==
  [p EXCEPT !.iterationNum_ = Increment(@), !.iterationLearnNum_ = Increment(@)]

\* SpatialPooler::updateBookeepingVars_.
updateBookeepingVars_(p, learn) ==
  [p EXCEPT !.iterationNum_ = Increment(@),
            !.iterationLearnNum_ = IF learn THEN Increment(@) ELSE @]

\* SpatialPooler::isUpdateRound_.
isUpdateRound_(p) == Modulo(p.iterationNum_, p.updatePeriod_) = 0

\* A variant of adaptSynapses_ that lets adaptSegment prune the synapses
\* that reach permanence 0.
RECURSIVE adaptSynapsesPruning_(_, _, _, _, _)
adaptSynapsesPruning_(p, C, input, active, i) ==
  IF i > Len(active) THEN C
  ELSE adaptSynapsesPruning_(
         p,
         UNION {LET adapted == adaptSegment(c, active[i], input, p.synPermActiveInc_,
                                            p.synPermInactiveDec_, TRUE, 0)
                IN {raisePermanencesToThreshold(adapted, active[i],
                                                p.stimulusThreshold_, arranged) :
                      arranged \in Arrangements_(adapted, active[i],
                                                 p.stimulusThreshold_)} :
                c \in C},
         input, active, i + 1)

\* SpatialPooler::adaptSynapses_ for the active columns from index i on: the
\* instances it can leave, one per arrangement raisePermanencesToThreshold
\* is left with.
RECURSIVE adaptSynapses_(_, _, _, _, _)
adaptSynapses_(p, C, input, active, i) ==
  IF i > Len(active) THEN C
  ELSE adaptSynapses_(
         p,
         UNION {LET adapted == adaptSegment(c, active[i], input, p.synPermActiveInc_,
                                            p.synPermInactiveDec_, FALSE, 0)
                IN {raisePermanencesToThreshold(adapted, active[i],
                                                p.stimulusThreshold_, arranged) :
                      arranged \in Arrangements_(adapted, active[i],
                                                 p.stimulusThreshold_)} :
                c \in C},
         input, active, i + 1)

\* The period of updateDutyCycles_: std::min(dutyCyclePeriod_, iterationNum_).
period_(p) == MinWith(p.dutyCyclePeriod_, p.iterationNum_)

\* SpatialPooler::updateDutyCyclesHelper_ on one vector of duty cycles;
\* newValues is the set of columns that are 1.  With period 0 the release
\* build divides by zero: decay and increment are infinite.
updateDutyCyclesHelper_(dutyCycles, newValues, period) ==
  LET decay == IF period = 0 THEN Infinity ELSE Frac(period - 1, period)
      increment == Frac(1, period)
  IN [c \in DOMAIN dutyCycles |->
        IF c \in newValues
          THEN FracAdd(FracMul(dutyCycles[c], decay), increment)
          ELSE FracMul(dutyCycles[c], decay)]

\* SpatialPooler::updateDutyCycles_; NTA_ASSERT(period > 0) throws in a
\* build with assertions.
updateDutyCycles_(p, overlaps, active) ==
  IF period_(p) = 0 /\ p.connections_.assertionsOn THEN [p EXCEPT !.failed = TRUE]
  ELSE [p EXCEPT
          !.overlapDutyCycles_ =
             updateDutyCyclesHelper_(@, {c \in 1..p.numColumns_ : overlaps[c] # 0},
                                     period_(p)),
          !.activeDutyCycles_ =
             updateDutyCyclesHelper_(@, SeqToSet(active), period_(p))]

\* SpatialPooler::bumpUpWeakColumns_ for the columns from i on.
RECURSIVE bumpUpWeakColumns_(_, _)
bumpUpWeakColumns_(p, i) ==
  IF i > p.numColumns_ THEN p
  ELSE bumpUpWeakColumns_(
         IF ~FracLess(p.overlapDutyCycles_[i], p.minOverlapDutyCycles_[i])
              /\ p.overlapDutyCycles_[i] # NaN /\ p.minOverlapDutyCycles_[i] # NaN
           THEN p
           ELSE [p EXCEPT !.connections_ =
                   bumpSegment(@, i, p.synPermBelowStimulusInc_)],
         i + 1)

\* std::exp in applyBoosting_, which the model does not compute: 1 at 0,
\* and a stand-in on the same side of 1 as the exponential elsewhere.
exp_(x) ==
  IF ~IsFinite(x) THEN (IF x = Infinity THEN Infinity ELSE IF x = NaN THEN NaN ELSE Whole(0))
  ELSE IF x.n = 0 THEN Whole(1)
  ELSE IF x.n > 0 THEN Frac(3, 2)
  ELSE Frac(2, 3)

\* applyBoosting_: the new boost factor of column i.
applyBoosting_(p, i, targetDensity) ==
  IF FracLess(p.boostStrength_, PermFrac(Epsilon)) THEN p.boostFactors_[i]
  ELSE exp_(FracMul(FracAdd(targetDensity,
                            FracMul(Whole(0 - 1), p.activeDutyCycles_[i])),
                    p.boostStrength_))

\* SpatialPooler::updateBoostFactorsGlobal_.
updateBoostFactorsGlobal_(p) ==
  LET targetDensity ==
        IF p.numActiveColumnsPerInhArea_ > 0
          THEN FracMin(Frac(p.numActiveColumnsPerInhArea_,
                            Min2(p.numColumns_, 2 * p.inhibitionRadius_ + 1)),
                       MAX_LOCALAREADENSITY)
          ELSE p.localAreaDensity_
  IN [p EXCEPT !.boostFactors_ =
        [i \in 1..p.numColumns_ |-> applyBoosting_(p, i, targetDensity)]]

\* The sum of the active duty cycles of the columns of the sequence q.
RECURSIVE sumDutyCycles_(_, _)
sumDutyCycles_(p, q) ==
  IF q = <<>> THEN Whole(0)
  ELSE FracAdd(p.activeDutyCycles_[q[1]], sumDutyCycles_(p, SubSeq(q, 2, Len(q))))

\* The columns of the set S in ascending order.
RECURSIVE Ascending(_)
Ascending(S) ==
  IF S = {} THEN <<>>
  ELSE LET least == CHOOSE x \in S : \A y \in S : x <= y
       IN <<least>> \o Ascending(S \ {least})

\* SpatialPooler::updateBoostFactorsLocal_.
updateBoostFactorsLocal_(p) ==
  [p EXCEPT !.boostFactors_ =
     [i \in 1..p.numColumns_ |->
        applyBoosting_(
          p, i,
          FracMul(sumDutyCycles_(p, <<i>> \o Ascending(p.neighborMap_[i])),
                  Frac(1, Cardinality(p.neighborMap_[i]) + 1)))]]

\* SpatialPooler::updateBoostFactors_.
updateBoostFactors_(p) ==
  IF p.globalInhibition_ THEN updateBoostFactorsGlobal_(p)
  ELSE updateBoostFactorsLocal_(p)

\* The greatest of the overlap duty cycles of the columns of the set S, as
\* std::max leaves it when it starts from column i.
maxOverlapDutyCycle_(p, i, S) ==
  LET best == CHOOSE c \in S \cup {i} :
                \A d \in S \cup {i} : ~FracLess(p.overlapDutyCycles_[c], p.overlapDutyCycles_[d])
  IN p.overlapDutyCycles_[best]

\* SpatialPooler::updateMinDutyCycles_ with its two branches
\* updateMinDutyCyclesGlobal_ and updateMinDutyCyclesLocal_.
updateMinDutyCycles_(p) ==
  IF p.globalInhibition_ \/ p.inhibitionRadius_ >= p.numColumns_
    THEN [p EXCEPT !.minOverlapDutyCycles_ =
            [i \in 1..p.numColumns_ |->
               FracMul(p.minPctOverlapDutyCycles_,
                       maxOverlapDutyCycle_(p, 1, 1..p.numColumns_))]]
    ELSE [p EXCEPT !.minOverlapDutyCycles_ =
            [i \in 1..p.numColumns_ |->
               FracMul(maxOverlapDutyCycle_(p, i, p.neighborMap_[i]),
                       p.minPctOverlapDutyCycles_)]]

\* ---------------------------------------------------------------- compute
\* Connections::computeActivityWeighted with the weights of a plain SDR
\* (all 1): the number of connected synapses from the active inputs.
computeActivityWeighted(s, sparse) == computeActivity(s, sparse)

\* The part of compute under `if (learn)`, after adaptSynapses_ left the
\* instance c.
learn_(p, c, overlaps, active) ==
  LET counted == updateDutyCycles_([p EXCEPT !.connections_ = c], overlaps, active)
      boosted(q) == updateBoostFactors_(bumpUpWeakColumns_(q, 1))
      rounded(q) ==
        IF isUpdateRound_(q)
          THEN [updateMinDutyCycles_(updateInhibitionRadius_(q)) EXCEPT
                  !.updateRound = TRUE]
          ELSE q
  IN IF counted.failed THEN counted ELSE rounded(boosted(counted))

\* SpatialPooler::compute; `input` is the set of inputs that are 1.  The
\* poolers the call can leave, one per arrangement the partial selections
\* are left with; `failed` is set when NTA_CHECK(numDesired > 0) throws.
compute(p, input, learn) ==
  LET counted == updateBookeepingVars_(p, learn)
      overlaps == computeActivityWeighted(counted.connections_, Ascending(input))
      start == [counted EXCEPT
                  !.boostedOverlaps_ = boostOverlaps_(counted, overlaps),
                  !.overlaps = overlaps,
                  !.updateRound = FALSE]
      finish(inhibited) ==
        IF inhibited.failed THEN {[start EXCEPT !.failed = TRUE]}
        ELSE LET active == sortAscending_(inhibited.columns)
                 written == [start EXCEPT !.active = active]
             IN IF ~learn THEN {written}
                ELSE {learn_(written, c, overlaps, active) :
                        c \in adaptSynapses_(written, {written.connections_},
                                             input, active, 1)}
  IN UNION {finish(inhibited) : inhibited \in inhibitColumns_(start, start.boostedOverlaps_)}

\* ------------------------------------------------------ the pooler machine
\* The pooler as one record: its own fields in sp, its Connections instance
\* in the variables of the instance.
Pooler ==
  [f \in (DOMAIN sp) \cup {"connections_"} |->
     IF f = "connections_" THEN State ELSE sp[f]]

\* The variables after a call that left the pooler as record r.
SetPooler(r) ==
  /\ SetConnections(r.connections_)
  /\ sp' = [f \in (DOMAIN r) \ {"connections_"} |-> r[f]]
  /\ tm' = tm /\ vm' = vm

Columns == 1..NumColumns
Inputs == 1..NumInputs

\* The arguments of initialize the exploration starts from: three inputs and
\* three columns, pools drawn from the inputs within radius 1, permanences
\* changed by 0.5 at a time.
Configuration(globalInhibition, localAreaDensity, numActiveColumnsPerInhArea, stimulusThreshold, potentialPct, boostStrength) ==
  [ numInputs |-> NumInputs,
    numColumns |-> NumColumns,
    potentialRadius |-> 1,
    potentialPct |-> potentialPct,
    globalInhibition |-> globalInhibition,
    localAreaDensity |-> localAreaDensity,
    numActiveColumnsPerInhArea |-> numActiveColumnsPerInhArea,
    stimulusThreshold |-> stimulusThreshold,
    synPermInactiveDec |-> 5000,
    synPermActiveInc |-> 5000,
    synPermConnected |-> 5000,
    minPctOverlapDutyCycles |-> Frac(1, 2),
    dutyCyclePeriod |-> 2,
    boostStrength |-> boostStrength,
    wrapAround |-> FALSE,
    \* the build: NTA_ASSERT is compiled in or not
    assertions |-> FALSE ]

\* The pooler is constructed as one of the outcomes of initialize(cfg).
InitPooler(cfg) ==
  \E r \in initialize(cfg) :
    /\ ~r.failed
    /\ sp = [f \in (DOMAIN r) \ {"connections_"} |-> r[f]]
    /\ tm = NoTemporalMemory
    /\ vm = NewValueMap
    /\ cells_ = r.connections_.cells_
    /\ segments_ = r.connections_.segments_
    /\ destroyedSegments_ = r.connections_.destroyedSegments_
    /\ synapses_ = r.connections_.synapses_
    /\ destroyedSynapses_ = r.connections_.destroyedSynapses_
    /\ potentialSynapsesForPresynapticCell_ = r.connections_.potentialSynapsesForPresynapticCell_
    /\ potentialSegmentsForPresynapticCell_ = r.connections_.potentialSegmentsForPresynapticCell_
    /\ connectedSynapsesForPresynapticCell_ = r.connections_.connectedSynapsesForPresynapticCell_
    /\ connectedSegmentsForPresynapticCell_ = r.connections_.connectedSegmentsForPresynapticCell_
    /\ connectedThreshold_ = r.connections_.connectedThreshold_
    /\ timeseries_ = r.connections_.timeseries_
    /\ previousUpdates_ = r.connections_.previousUpdates_
    /\ currentUpdates_ = r.connections_.currentUpdates_
    /\ prunedSyns_ = r.connections_.prunedSyns_
    /\ prunedSegs_ = r.connections_.prunedSegs_
    /\ eventHandlers_ = r.connections_.eventHandlers_
    /\ assertionsOn = r.connections_.assertionsOn
    /\ events = r.connections_.events
    /\ failed = r.connections_.failed

\* The exploration follows a pooler while no call threw, the duty cycles
\* are finite, and for MaxIterations calls of compute.
PoolerReady ==
  /\ ~sp.failed
  /\ sp.iterationNum_ < UInt(MaxIterations)
  /\ \A c \in Columns : IsFinite(sp.overlapDutyCycles_[c])

\* Boost factors offered to setBoostFactors: the first column above the
\* others, or below them.
BoostInputs ==
  {[c \in Columns |-> IF c = 1 THEN Whole(2) ELSE Frac(1, 2)],
   [c \in Columns |-> IF c = 1 THEN Frac(1, 2) ELSE Whole(2)]}

\* Input SDRs offered to compute.
ComputeInputs == {{1, 2}, {3}}

Compute ==
  PoolerReady /\ \E input \in ComputeInputs, learn \in BOOLEAN :
                   \E r \in compute(Pooler, input, learn) : SetPooler(r)

SetBoostFactors ==
  PoolerReady /\ \E boostFactors \in BoostInputs :
                   SetPooler(setBoostFactors(Pooler, boostFactors))

SetStimulusThreshold ==
  PoolerReady /\ \E stimulusThreshold \in {1, 2} :
                   SetPooler(setStimulusThreshold(Pooler, stimulusThreshold))

\* Inhibition: global and local, boosting on, the sparsity given either way.
InitInhibition ==
  \E c \in {<<TRUE, Frac(2, 3), 0>>, <<FALSE, Whole(0), 1>>} :
    InitPooler(Configuration(c[1], c[2], c[3], 1, Frac(1, 2), Whole(1)))

NextInhibition == Compute \/ SetBoostFactors \/ SetStimulusThreshold

SpecInhibition == InitInhibition /\ [][NextInhibition]_vars

\* ------------------------------------------------------ global inhibition
\* The results of one more compute call on the pooler, for any input SDR.
Computed(learn) ==
  UNION {compute(Pooler, input, learn) : input \in SUBSET Inputs}

\* floor(density * numColumns) of pooler p.
NumDesired(p) == Truncate(FracMul(density_(p), Whole(p.numColumns_)))

\* The columns of r.active are in ascending order.
WrittenAscending(r) ==
  \A i \in 1..Len(r.active), j \in 1..Len(r.active) :
    i < j => r.active[i] < r.active[j]

\* No column left out has a higher boosted overlap than an active one.
RankedHighest(r) ==
  \A a \in SeqToSet(r.active), c \in 1..r.numColumns_ :
    c \notin SeqToSet(r.active)
      => ~FracLess(r.boostedOverlaps_[a], r.boostedOverlaps_[c])

\* Every column left out is below the stimulus threshold.
TailBelowThreshold(r) ==
  \A c \in 1..r.numColumns_ :
    c \notin SeqToSet(r.active)
      => FracLess(r.boostedOverlaps_[c], Whole(r.stimulusThreshold_))

\* C22: under global inhibition compute activates the columns ranked highest
\* by boosted overlap, never more than floor(density * numColumns) of them
\* and exactly that many unless the rest of the ranking is below
\* stimulusThreshold, and writes the active columns in ascending order; once
\* stimulusThreshold is set to 0 it activates exactly that many.
C22_GlobalInhibitionTopColumns ==
  (PoolerReady /\ inhibitsGlobally_(Pooler)) =>
    /\ \A learn \in BOOLEAN : \A r \in Computed(learn) :
         ~r.failed =>
           /\ Len(r.active) <= NumDesired(Pooler)
           /\ RankedHighest(r)
           /\ (Len(r.active) = NumDesired(Pooler) \/ TailBelowThreshold(r))
           /\ WrittenAscending(r)
    /\ \A input \in SUBSET Inputs :
         \A z \in compute(setStimulusThreshold(Pooler, 0), input, FALSE) :
           ~z.failed => /\ Len(z.active) = NumDesired(Pooler)
                        /\ RankedHighest(z)
                        /\ WrittenAscending(z)

\* A compute call under global inhibition left fewer than
\* floor(density * numColumns) columns active, the others being below the
\* threshold, and the active columns were not found in ascending order by the
\* selection.
C22_Witness ==
  /\ ~sp.failed
  /\ inhibitsGlobally_(Pooler)
  /\ sp.iterationNum_ > UInt(0)
  /\ \E input \in SUBSET Inputs : \E r \in compute(Pooler, input, FALSE) :
       /\ ~r.failed
       /\ Len(r.active) = 1
       /\ Len(r.active) < NumDesired(Pooler)
       /\ TailBelowThreshold(r)
  /\ \E z \in compute(setStimulusThreshold(Pooler, 0), {}, FALSE) :
       Len(z.active) = NumDesired(Pooler)
  /\ \E input \in SUBSET Inputs : \E r \in compute(Pooler, input, FALSE) :
       /\ Len(r.active) = NumDesired(Pooler)
       /\ \E inhibited \in inhibitColumns_(r, r.boostedOverlaps_) :
            inhibited.columns # r.active

\* Columns a and b have exactly equal boosted overlap in r, and only b is
\* active.
TieWonBy(r, a, b) ==
  /\ r.boostedOverlaps_[a] = r.boostedOverlaps_[b]
  /\ b \in SeqToSet(r.active)
  /\ a \notin SeqToSet(r.active)

\* C23: in global inhibition, when two columns have exactly equal boosted
\* overlap and only one of them becomes active, it is the one with the lower
\* index.
C23_LowerIndexWinsTie ==
  (PoolerReady /\ inhibitsGlobally_(Pooler)) =>
    \A r \in Computed(FALSE) :
      ~r.failed =>
        \A a \in Columns, b \in Columns : TieWonBy(r, a, b) => b < a

\* What compute does: of two columns with equal boosted overlap the one
\* with the higher index becomes active.
C23_HigherIndexWinsTie ==
  (PoolerReady /\ inhibitsGlobally_(Pooler)) =>
    \A r \in Computed(FALSE) :
      ~r.failed =>
        \A a \in Columns, b \in Columns : TieWonBy(r, a, b) => b > a

\* Columns 1 and 3 are tied at or above the threshold, and the one active
\* is column 3.
C23_HigherIndexWon ==
  /\ PoolerReady /\ inhibitsGlobally_(Pooler)
  /\ \E r \in Computed(FALSE) :
       /\ ~r.failed
       /\ TieWonBy(r, 1, 3)
       /\ ~FracLess(r.boostedOverlaps_[1], Whole(r.stimulusThreshold_))

\* ------------------------------------------------------ stimulus threshold
\* Column c of r has raw overlap >= stimulusThreshold.
MeetsThreshold(r, c) == r.overlaps[c] >= r.stimulusThreshold_

\* Column c of r was left out by the threshold test of inhibition: the loop
\* of inhibitColumnsLocal_ skipped it, or inhibitColumnsGlobal_ returned
\* fewer than numDesired columns without it.
ExcludedByThreshold(r, c) ==
  /\ c \notin SeqToSet(r.active)
  /\ IF inhibitsGlobally_(r)
       THEN Len(r.active) < NumDesired(r)
       ELSE FracLess(r.boostedOverlaps_[c], Whole(r.stimulusThreshold_))

\* C24: every column compute reports active has raw overlap >=
\* stimulusThreshold, under global and under local inhibition and for every
\* value of the boost factors, and no column with raw overlap >=
\* stimulusThreshold is left out by the threshold test.
C24_RawOverlapDecides ==
  PoolerReady =>
    \A r \in Computed(FALSE) :
      ~r.failed =>
        \A c \in Columns :
          /\ c \in SeqToSet(r.active) => MeetsThreshold(r, c)
          /\ MeetsThreshold(r, c) => ~ExcludedByThreshold(r, c)

\* What compute does: the boosted overlap decides.
C24_BoostedOverlapDecides ==
  PoolerReady =>
    \A r \in Computed(FALSE) :
      ~r.failed =>
        \A c \in Columns :
          LET passes == ~FracLess(r.boostedOverlaps_[c], Whole(r.stimulusThreshold_))
          IN /\ c \in SeqToSet(r.active) => passes
             /\ passes => ~ExcludedByThreshold(r, c)

\* A column whose raw overlap is below the threshold is active.
ActiveBelowThreshold(globally) ==
  \E r \in Computed(FALSE), c \in Columns :
    /\ ~r.failed /\ inhibitsGlobally_(r) = globally
    /\ c \in SeqToSet(r.active) /\ ~MeetsThreshold(r, c)

\* A column whose raw overlap meets the threshold is left out by the
\* threshold test.
ExcludedAtThreshold(globally) ==
  \E r \in Computed(FALSE), c \in Columns :
    /\ ~r.failed /\ inhibitsGlobally_(r) = globally
    /\ MeetsThreshold(r, c) /\ ExcludedByThreshold(r, c)

C24_ActiveBelowThresholdGlobal == PoolerReady /\ ActiveBelowThreshold(TRUE)
C24_ActiveBelowThresholdLocal == PoolerReady /\ ActiveBelowThreshold(FALSE)
C24_ExcludedAtThresholdGlobal == PoolerReady /\ ExcludedAtThreshold(TRUE)
C24_ExcludedAtThresholdLocal == PoolerReady /\ ExcludedAtThreshold(FALSE)

\* ---------------------------------------------------------------- sparsity
\* The pooler after the caller caught the exception of a call that left r.
Caught(r) == [r EXCEPT !.failed = FALSE]

\* Arguments offered to the two sparsity setters: in and out of range.
DensityInputs ==
  {Frac(0 - 1, 3), Whole(0), Frac(1, 4), Frac(1, 3), Frac(2, 3), Whole(1), Frac(3, 2)}
NumActiveInputs == 0..(NumColumns + 1)

SetLocalAreaDensity ==
  /\ ~sp.failed
  /\ \E localAreaDensity \in DensityInputs :
       SetPooler(Caught(setLocalAreaDensity(Pooler, localAreaDensity)))

SetNumActiveColumnsPerInhArea ==
  /\ ~sp.failed
  /\ \E numActiveColumnsPerInhArea \in NumActiveInputs :
       SetPooler(Caught(setNumActiveColumnsPerInhArea(Pooler, numActiveColumnsPerInhArea)))

\* The pooler is constructed with the sparsity given either way.
InitSparsity ==
  \E c \in {<<TRUE, Frac(2, 3), 0>>, <<FALSE, Whole(0), 1>>} :
    InitPooler(Configuration(c[1], c[2], c[3], 1, Frac(1, 2), Whole(1)))

NextSparsity == SetLocalAreaDensity \/ SetNumActiveColumnsPerInhArea

SpecSparsity == InitSparsity /\ [][NextSparsity]_vars

\* Exactly one of localAreaDensity and numActiveColumnsPerInhArea is > 0.
ExactlyOneSparsity(p) ==
  FracLess(Whole(0), p.localAreaDensity_) # (p.numActiveColumnsPerInhArea_ > 0)

\* The configurations of initialize with both sparsity parameters set, or
\* neither.
AmbiguousSparsity ==
  {Configuration(g, d, n, 1, Frac(1, 2), Whole(1)) :
     g \in BOOLEAN,
     d \in DensityInputs, n \in NumActiveInputs} \ 
  {cfg \in {Configuration(g, d, n, 1, Frac(1, 2), Whole(1)) :
              g \in BOOLEAN, d \in DensityInputs, n \in NumActiveInputs} :
     FracLess(Whole(0), cfg.localAreaDensity) # (cfg.numActiveColumnsPerInhArea > 0)}

\* C25: after initialize and after every setLocalAreaDensity or
\* setNumActiveColumnsPerInhArea call, accepted or rejected, exactly one of
\* localAreaDensity and numActiveColumnsPerInhArea is greater than zero;
\* initialize rejects a configuration with both or neither set; a setter
\* call with an out-of-range value fails and leaves both unchanged.
C25_ExactlyOneSparsity ==
  ~sp.failed =>
    /\ ExactlyOneSparsity(Pooler)
    /\ \A d \in DensityInputs :
         LET r == setLocalAreaDensity(Pooler, d)
         IN /\ ExactlyOneSparsity(Caught(r))
            /\ r.failed => Caught(r) = Pooler
            /\ r.failed <=> ~(FracLess(Whole(0), d) /\ ~FracLess(Whole(1), d)
                              /\ Truncate(FracMul(d, Whole(NumColumns))) > 0)
    /\ \A n \in NumActiveInputs :
         LET r == setNumActiveColumnsPerInhArea(Pooler, n)
         IN /\ ExactlyOneSparsity(Caught(r))
            /\ r.failed => Caught(r) = Pooler
            /\ r.failed <=> ~(n > 0 /\ n <= NumColumns)
    /\ \A cfg \in AmbiguousSparsity : \A r \in initialize(cfg) : r.failed

\* The sparsity of a pooler constructed with numActiveColumnsPerInhArea was
\* given as a density by an accepted call, and the calls with out-of-range
\* values are rejected.
C25_Witness ==
  /\ ~sp.failed
  /\ ~sp.globalInhibition_
  /\ sp.localAreaDensity_ = Frac(1, 3)
  /\ sp.numActiveColumnsPerInhArea_ = 0
  /\ setLocalAreaDensity(Pooler, Frac(1, 4)).failed
  /\ setNumActiveColumnsPerInhArea(Pooler, NumColumns + 1).failed

\* ------------------------------------------------------------ the schedule
\* The number of learning steps the schedule is followed for.
MaxRounds == 3

\* The exploration follows a pooler while no call threw, the duty cycles
\* are finite, and for MaxRounds learning steps.
ScheduleReady ==
  /\ ~sp.failed
  /\ sp.iterationLearnNum_ < UInt(MaxRounds)
  /\ (sp.iterationNum_ < UInt(MaxRounds) \/ sp.iterationNum_ = UIntMax)
  /\ \A c \in Columns : IsFinite(sp.overlapDutyCycles_[c])
  /\ \A c \in Columns : IsFinite(sp.activeDutyCycles_[c])

ComputeOnSchedule ==
  ScheduleReady /\ \E input \in ComputeInputs, learn \in BOOLEAN :
                     \E r \in compute(Pooler, input, learn) : SetPooler(r)

SetUpdatePeriod ==
  ScheduleReady /\ \E updatePeriod \in 1..2 :
                     SetPooler(setUpdatePeriod(Pooler, updatePeriod))

SetDutyCyclePeriod ==
  ScheduleReady /\ \E dutyCyclePeriod \in 0..2 :
                     SetPooler(setDutyCyclePeriod(Pooler, dutyCyclePeriod))

SetIterationNum ==
  ScheduleReady /\ \E iterationNum \in {UInt(0), UIntMax} :
                     SetPooler(setIterationNum(Pooler, iterationNum))

\* One potential input per column, global inhibition, boosting off, in a
\* build with or without assertions.
InitSchedule ==
  \E assertions \in BOOLEAN :
    InitPooler([Configuration(TRUE, Frac(2, 3), 0, 1, Whole(1), Whole(0))
                  EXCEPT !.potentialRadius = 0, !.assertions = assertions])

NextSchedule ==
  ComputeOnSchedule \/ SetUpdatePeriod \/ SetDutyCyclePeriod \/ SetIterationNum

SpecSchedule == InitSchedule /\ [][NextSchedule]_vars

\* The results of one more compute call on the schedule, with learning on
\* or off.
Scheduled(learn) ==
  UNION {compute(Pooler, input, learn) : input \in ComputeInputs}

\* C26: the inhibition radius and the minimum overlap duty cycles are
\* recomputed on exactly those compute calls with learn = true whose
\* iterationLearnNum, after the increment, is a multiple of updatePeriod.
C26_RoundEveryUpdatePeriodLearningSteps ==
  ScheduleReady =>
    \A learn \in BOOLEAN : \A r \in Scheduled(learn) :
      ~r.failed =>
        (r.updateRound <=>
           (learn /\ Modulo(r.iterationLearnNum_, r.updatePeriod_) = 0))

\* What compute does: the round is run on the learning calls at which
\* iterationNum, which counts every compute call, is a multiple of
\* updatePeriod.
C26_RoundByIterationNum ==
  ScheduleReady =>
    \A learn \in BOOLEAN : \A r \in Scheduled(learn) :
      ~r.failed =>
        (r.updateRound <=>
           (learn /\ Modulo(r.iterationNum_, r.updatePeriod_) = 0))

\* With updatePeriod 2, after one compute without learning and one with,
\* the round was run on the first learning step.
C26_RoundOnFirstLearningStep ==
  /\ sp.updateRound
  /\ sp.updatePeriod_ = 2
  /\ sp.iterationNum_ = UInt(2)
  /\ sp.iterationLearnNum_ = UInt(1)

\* With updatePeriod 2, the second learning step was the third compute call
\* and did not run the round.
C26_RoundMissedOnSecondLearningStep ==
  /\ ~sp.updateRound
  /\ sp.updatePeriod_ = 2
  /\ sp.iterationNum_ = UInt(3)
  /\ sp.iterationLearnNum_ = UInt(2)
  /\ sp.active # <<>>

\* C27: in every compute call with learn = true the period
\* min(dutyCyclePeriod, iterationNum) of the duty-cycle update is >= 1.
C27_PeriodAtLeastOne ==
  ScheduleReady => period_(updateBookeepingVars_(Pooler, TRUE)) >= 1

\* What holds: the period is >= 1 when dutyCyclePeriod is, unless
\* iterationNum is about to wrap.
C27_PeriodOfPositiveDutyCyclePeriod ==
  (ScheduleReady /\ sp.dutyCyclePeriod_ >= 1 /\ sp.iterationNum_ # UIntMax)
    => period_(updateBookeepingVars_(Pooler, TRUE)) >= 1

\* setDutyCyclePeriod(0) was accepted: the next learning step has period 0.
C27_ZeroDutyCyclePeriod ==
  /\ ScheduleReady
  /\ sp.dutyCyclePeriod_ = 0
  /\ period_(updateBookeepingVars_(Pooler, TRUE)) = 0

\* setIterationNum(UINT_MAX) was accepted: the increment wraps to 0 and the
\* next learning step has period 0 although dutyCyclePeriod is positive.
C27_IterationNumWraps ==
  /\ ScheduleReady
  /\ sp.dutyCyclePeriod_ >= 1
  /\ sp.iterationNum_ = UIntMax
  /\ period_(updateBookeepingVars_(Pooler, TRUE)) = 0

\* initialize accepts dutyCyclePeriod 0.
C27_InitializeAcceptsZero ==
  \E r \in initialize([Configuration(TRUE, Frac(2, 3), 0, 1, Whole(1), Whole(0))
                         EXCEPT !.potentialRadius = 0, !.dutyCyclePeriod = 0]) :
    ~r.failed /\ r.dutyCyclePeriod_ = 0

\* A learning step with period 0 ran in a build without assertions and left
\* duty cycles that are not finite.
C27_DividedByZero ==
  /\ ~sp.failed /\ ~assertionsOn
  /\ \E c \in Columns : ~IsFinite(sp.activeDutyCycles_[c])

\* A learning step with period 0 threw in a build with assertions.
C27_AssertionFailed ==
  /\ sp.failed /\ assertionsOn
  /\ period_(Pooler) = 0

\* ---------------------------------------------------------- initialization
\* The pooler is constructed with neighbourhoods of one, two and three
\* inputs, half or all of them potential, with and without a stimulus
\* threshold.
InitInitialize ==
  \E c \in {<<0, FALSE, Whole(1)>>, <<1, FALSE, Frac(1, 2)>>,
             <<1, FALSE, Whole(1)>>, <<1, TRUE, Frac(1, 2)>>},
     stimulusThreshold \in 0..1 :
    InitPooler([Configuration(TRUE, Frac(2, 3), 0, stimulusThreshold, c[3], Whole(0))
                  EXCEPT !.potentialRadius = c[1], !.wrapAround = c[2]])

NextInitialize == Compute

SpecInitialize == InitInitialize /\ [][NextInitialize]_vars

\* The state is the one initialize left: no compute call was made.
RightAfterInitialize == ~sp.failed /\ sp.iterationNum_ = UInt(0)

\* The synapses of the column's segment, the inputs they come from, and how
\* many of them are connected.
SynapsesOf(column) == SeqToSet(synapsesForSegment(State, column))
PotentialPool(column) == {synapses_[y].presynapticCell : y \in SynapsesOf(column)}
NumConnected(column) == Cardinality({y \in SynapsesOf(column) : IsConnected(y)})

\* The inputs around the column's centre, within potentialRadius.
PotentialNeighborhood(column) ==
  Neighborhood(initMapColumn_(Pooler, column), sp.potentialRadius_,
               sp.numInputs_, sp.wrapAround_, FALSE)

\* Column `column` owns exactly one segment.
OwnsOneSegment(column) ==
  /\ segmentsForCell(State, column) = <<column>>
  /\ column \in LiveSegments(State)
  /\ segments_[column].cell = column

\* C28 as stated: right after initialize every column owns exactly one
\* segment, and that segment has exactly initConnectedPct *
\* potentialPoolSize connected synapses.
C28_ExactlyHalfConnected ==
  RightAfterInitialize =>
    \A column \in Columns :
      /\ OwnsOneSegment(column)
      /\ Whole(NumConnected(column))
           = FracMul(sp.initConnectedPct_, Whole(Cardinality(SynapsesOf(column))))

\* C28: right after initialize every column owns exactly one segment, the
\* segment has one synapse per input of the column's potential pool, each
\* connected or not by its own draw, and at least stimulusThreshold of them
\* (all of them, if the pool is smaller) are connected.
C28_OneSegmentPerColumn ==
  RightAfterInitialize =>
    /\ LiveSegments(State) = Columns
    /\ \A column \in Columns :
         /\ OwnsOneSegment(column)
         /\ Cardinality(PotentialPool(column)) = Cardinality(SynapsesOf(column))
         /\ PotentialPool(column) \subseteq PotentialNeighborhood(column)
         /\ NumConnected(column) <= Cardinality(SynapsesOf(column))
         /\ NumConnected(column)
              >= Min2(sp.stimulusThreshold_, Cardinality(SynapsesOf(column)))

\* Right after initialize one column has both synapses of its pool
\* connected and another has none connected.
C28_Witness ==
  /\ RightAfterInitialize
  /\ \E column \in Columns :
       Cardinality(SynapsesOf(column)) = 2 /\ NumConnected(column) = 2
  /\ \E column \in Columns :
       Cardinality(SynapsesOf(column)) = 2 /\ NumConnected(column) = 0

\* |neighborhood| * potentialPct of the column.
PotentialShare(column) ==
  FracMul(Whole(Cardinality(PotentialNeighborhood(column))), sp.potentialPct_)

\* C29: at initialization the potential pool of each column has exactly
\* floor(|neighborhood| * potentialPct) distinct inputs, all from the
\* column's neighborhood at potentialRadius.
C29_PoolOfFloorSize ==
  RightAfterInitialize =>
    \A column \in Columns :
      /\ PotentialPool(column) \subseteq PotentialNeighborhood(column)
      /\ Cardinality(SynapsesOf(column)) = Cardinality(PotentialPool(column))
      /\ Cardinality(PotentialPool(column)) = Truncate(PotentialShare(column))

\* What initialize does: the pool has round(|neighborhood| * potentialPct)
\* distinct inputs of the neighborhood.
C29_PoolOfRoundedSize ==
  RightAfterInitialize =>
    \A column \in Columns :
      /\ PotentialPool(column) \subseteq PotentialNeighborhood(column)
      /\ Cardinality(SynapsesOf(column)) = Cardinality(PotentialPool(column))
      /\ Cardinality(PotentialPool(column)) = Round(PotentialShare(column))

\* A neighborhood of three inputs with potentialPct 1/2 gave a pool of two
\* inputs.
C29_PoolAboveFloor ==
  /\ RightAfterInitialize
  /\ \E column \in Columns :
       /\ Cardinality(PotentialNeighborhood(column)) = 3
       /\ sp.potentialPct_ = Frac(1, 2)
       /\ Cardinality(PotentialPool(column)) = 2

\* -------------------------------------------------------------- determinism
\* What a pooler lets its caller observe: every field of its own, and of its
\* Connections the permanence of each column from each input.
Output(r) ==
  [r EXCEPT !.connections_ =
     IF r.failed THEN <<>>
     ELSE [column \in 1..r.numColumns_ |-> getPermanence(r, column, 0)]]

\* The pooler with the synapses of one segment stored in another order.
Reordered(p) ==
  UNION {{[p EXCEPT !.connections_.segments_[column].synapses = synapses] :
            synapses \in Permutations_(p.connections_.segments_[column].synapses)} :
         column \in 1..p.numColumns_}

previousUpdate_(s, synapse) ==
  IF synapse <= Len(s.previousUpdates_) THEN s.previousUpdates_[synapse]
  ELSE minPermanence

\* The delta adaptSegment computes for a synapse, and whether it prunes the
\* synapse instead of updating it.
DeltaOf(s, synapse, inputs, increment, decrement) ==
  IF s.synapses_[synapse].presynapticCell \in inputs THEN increment ELSE 0 - decrement
PrunedBy(s, synapse, delta, pruneZeroSynapses) ==
  pruneZeroSynapses /\ s.synapses_[synapse].permanence + delta < minPermanence + Epsilon

\* C35: in time-series mode adaptSegment writes the permanence of a synapse
\* it does not prune (the clamped sum of permanence and delta) exactly when
\* the delta differs from the synapse's previous update, and records the
\* delta as its current update in either case; outside time-series mode the
\* delta is applied to every synapse not pruned. computeActivity, in
\* time-series mode, makes the current updates the previous ones and leaves
\* no current update; reset leaves neither.
C35_TimeSeriesUpdates ==
  Ready =>
    /\ \A segment \in LiveSegments(State), inputs \in SUBSET PresynCells, a \in AdaptInputs :
         LET r == adaptSegment(State, segment, inputs, a[1], a[2], a[3], a[4])
             syns == synapsesForSegment(State, segment)
         IN \A i \in 1..Len(syns) :
              LET y == syns[i]
                  delta == DeltaOf(State, y, inputs, a[1], a[2])
                  suppressed == timeseries_ /\ delta = previousUpdate_(State, y)
              IN ~PrunedBy(State, y, delta, a[3]) =>
                   /\ timeseries_ => r.currentUpdates_[y] = delta
                   /\ y \in LiveSynapses(r) =>
                        r.synapses_[y].permanence =
                          IF suppressed THEN synapses_[y].permanence
                          ELSE clamp_(synapses_[y].permanence + delta)
    /\ \A activePresynapticCells \in CellLists :
         LET r == computeActivityPotential(State, activePresynapticCells).after
         IN IF timeseries_
              THEN r.previousUpdates_ = currentUpdates_ /\ r.currentUpdates_ = <<>>
              ELSE r = State
    /\ reset(State).previousUpdates_ = <<>>
    /\ reset(State).currentUpdates_ = <<>>

\* C35 witness: in time-series mode a synapse whose previous update was the
\* increment is left alone by an adaptSegment with that increment, which
\* still records it, while a synapse of the same segment with another
\* previous update is written.
C35_Witness ==
  /\ Ready /\ timeseries_
  /\ \E segment \in LiveSegments(State) :
       LET r == adaptSegment(State, segment, PresynCells, 5000, 5000, FALSE, 0)
       IN \E y \in SynapsesOn(segment), z \in SynapsesOn(segment) :
            /\ previousUpdate_(State, y) = 5000
            /\ synapses_[y].permanence < maxPermanence
            /\ r.synapses_[y].permanence = synapses_[y].permanence
            /\ r.currentUpdates_[y] = 5000
            /\ previousUpdate_(State, z) # 5000
            /\ r.synapses_[z].permanence > synapses_[z].permanence

\* The first adaptSegment on a synapse that createSynapse has just created
\* (directly, or after one computeActivity) writes its permanence, for the
\* creations whose handle passes `reissued`.
FirstAdaptWrites(reissued) ==
  (Ready /\ timeseries_) =>
    \A segment \in LiveSegments(State), presynapticCell \in PresynCells, permanence \in PermInputs :
      LET created == createSynapse(State, segment, presynapticCell, permanence)
          y == created.ret
      IN (/\ existingSynapse_(State, segment, presynapticCell) = 0
          /\ (destroyedSynapses_ # <<>>) \in reissued) =>
           \A before \in {created, rotateUpdates_(created)}, inputs \in SUBSET PresynCells,
              a \in {b \in AdaptInputs : ~b[3]} :
             adaptSegment(before, segment, inputs, a[1], a[2], a[3], a[4]).synapses_[y].permanence
               = clamp_(created.synapses_[y].permanence
                        + DeltaOf(created, y, inputs, a[1], a[2]))

\* C37: in time-series mode the first adaptSegment applied to a synapse that
\* createSynapse has just created changes its permanence by the delta
\* (clamped), also when the handle of the synapse is one that a destroyed
\* synapse had.
C37_HistoryPerSynapse == FirstAdaptWrites(BOOLEAN)

\* The same for the synapses created on a handle that was never used.
C37_HistoryPerHandle == FirstAdaptWrites({FALSE})

\* A synapse was destroyed after an update was recorded for it, and the
\* synapse created next takes its handle and is not written by adaptSegment.
C37_StaleHistorySuppresses ==
  /\ Ready /\ timeseries_ /\ destroyedSynapses_ # <<>>
  /\ \E segment \in LiveSegments(State), presynapticCell \in PresynCells :
       LET created == createSynapse(State, segment, presynapticCell, 5000)
           y == created.ret
       IN /\ existingSynapse_(State, segment, presynapticCell) = 0
          /\ previousUpdate_(created, y) = 0 - 5000
          /\ adaptSegment(created, segment, {}, 5000, 5000, FALSE, 0).synapses_[y].permanence
               = 5000

\* ------------------------------------- growSynapses and existing synapses

\* initialPermanence arguments below and above the permanences in use.
GrowPermInputs == {2500, 7500}
GrownAt(g, initialPermanence) ==
  growSynapses(Observed, g[1], g[2], initialPermanence, g[3], g[4], g[5])

\* growSynapses with either initialPermanence, without a limit and with
\* room for two synapses on the segment.
GrowSynapsesAt ==
  Ready /\ destroyedSynapses_ = <<>>
        /\ \E segment \in LiveSegments(State), growthCandidates \in FineCellLists(2),
               maxNew \in 0..1, maxSynapsesPerSegment \in {0, 2},
               initialPermanence \in GrowPermInputs :
             /\ maxSynapsesPerSegment > 0
                  => numSynapses(State, segment) <= maxSynapsesPerSegment
             /\ \E shuffled \in Shuffles_(growthCandidates, maxNew) :
                  CallFine(growSynapses(State, segment, growthCandidates,
                                        initialPermanence, shuffled, maxNew,
                                        maxSynapsesPerSegment))

InitGrow == \E t \in ThresholdInputs : InitConnections(NumCells, t, FALSE, {}, FALSE)

NextGrow ==
  \/ CreateFirstSegment
  \/ CreateSynapseFine
  \/ DestroyMinPermanenceSynapsesFine
  \/ GrowSynapsesAt

SpecGrow == InitGrow /\ [][NextGrow]_vars

\* The first value of nActual in growSynapses, and the instance when its
\* loop over the candidates starts.
FirstActual(g) == IF g[4] = 0 THEN Len(g[2]) ELSE Min2(g[4], Len(g[2]))
RoomMade(g) ==
  IF g[5] > 0 /\ numSynapses(State, g[1]) + FirstActual(g) - g[5] > 0
    THEN destroyMinPermanenceSynapses(
           Observed, g[1], numSynapses(State, g[1]) + FirstActual(g) - g[5], g[2])
    ELSE Observed

\* The candidates that have no synapse on the segment in the instance s,
\* among the first n of the list as the loop goes through it.
FreshAmong(s, g, n) ==
  {g[3][j] : j \in {k \in 1..n : existingSynapse_(s, g[1], g[3][k]) = 0}}
\* The synapses the call created, by the events of the observer.
CreatedBy(r) == DestroyedBy(r, "onCreateSynapse")

\* What growSynapses does for the candidates that have a synapse on the
\* segment (when it is called if `asCalled`, else when its loop starts):
\* nothing is created for them, the synapse keeps its handle and place, its
\* permanence stays (if `raised`, becomes the greater of its own and
\* initialPermanence when the loop calls createSynapse for the candidate),
\* and as many synapses are created as there are other candidates, up to
\* nActual.
SkipsExisting(asCalled, raised) ==
  \A g \in GrowCases, initialPermanence \in GrowPermInputs :
    LET r == GrownAt(g, initialPermanence)
        made == RoomMade(g)
        s == IF asCalled THEN Observed ELSE made
        actual == IF g[5] > 0 THEN Min2(FirstActual(g), g[5] - numSynapses(made, g[1]))
                  ELSE FirstActual(g)
        tried(cell) ==
          \E i \in 1..Len(g[3]) :
            g[3][i] = cell /\ Cardinality(FreshAmong(made, g, i - 1)) < actual
    IN /\ \A cell \in SeqToSet(g[2]) :
            LET y == existingSynapse_(s, g[1], cell)
            IN y # 0 =>
                 /\ \A z \in CreatedBy(r) : r.synapses_[z].presynapticCell # cell
                 /\ y \in SeqToSet(r.segments_[g[1]].synapses)
                 /\ r.synapses_[y].presynapticCell = cell
                 /\ r.synapses_[y].permanence
                      = IF raised /\ tried(cell)
                          THEN Max2(s.synapses_[y].permanence, initialPermanence)
                          ELSE s.synapses_[y].permanence
       /\ Cardinality(CreatedBy(r))
            = Min2(actual, Cardinality(FreshAmong(s, g, Len(g[3]))))

NeverShrinks(offered(_)) ==
  \A g \in GrowCases, initialPermanence \in GrowPermInputs :
    offered(g) =>
      numSynapses(GrownAt(g, initialPermanence), g[1]) >= numSynapses(State, g[1])

AnyCandidates(g) == TRUE
\* The candidates are different cells, none with a synapse on the segment.
NewCandidates(g) ==
  /\ \A i \in 1..Len(g[2]), j \in 1..Len(g[2]) : i # j => g[2][i] # g[2][j]
  /\ \A i \in 1..Len(g[2]) : existingSynapse_(State, g[1], g[2][i]) = 0

\* C38: for every segment with at most maxSynapsesPerSegment synapses and
\* every candidates list, also one with candidates that have a synapse on
\* the segment, the segment has no fewer synapses after growSynapses than
\* before it.
C38_GrowNeverShrinks == NeverShrinks(AnyCandidates)

\* The same for lists of different candidates without a synapse on the
\* segment.
C38_NewCandidatesNeverShrink == NeverShrinks(NewCandidates)

\* A full segment, one candidate that has a synapse on it: growSynapses
\* destroys a synapse of another cell and creates none.
C38_RoomForNothing ==
  \E g \in GrowCases :
    LET r == GrownAt(g, 2500)
    IN /\ g[5] = 2 /\ numSynapses(State, g[1]) = 2
       /\ Len(g[2]) = 1
       /\ existingSynapse_(State, g[1], g[2][1]) # 0
       /\ Cardinality(DestroyedBy(r, "onDestroySynapse")) = 1
       /\ CreatedBy(r) = {}
       /\ numSynapses(r, g[1]) = 1

\* ------------------------------------------------ compute without learning

\* The learned state of a pooler: the Connections instance (permanences,
\* numConnected, lists), the duty cycles, the boost factors and the
\* inhibition radius.
LearnedState(r) ==
  <<r.connections_, r.overlapDutyCycles_, r.activeDutyCycles_,
    r.minOverlapDutyCycles_, r.boostFactors_, r.inhibitionRadius_>>

\* compute(input, false) leaves the learned state and iterationLearnNum as
\* they are and advances iterationNum by one; compute(input, true) advances
\* both counters by one (counters of 32 bits).
InferenceLearnsNothing ==
  ScheduleReady =>
    \A input \in SUBSET Inputs :
      /\ \A r \in compute(Pooler, input, FALSE) :
           /\ LearnedState(r) = LearnedState(Pooler)
           /\ r.iterationNum_ = Increment(sp.iterationNum_)
           /\ r.iterationLearnNum_ = sp.iterationLearnNum_
      /\ \A r \in compute(Pooler, input, TRUE) :
           /\ r.iterationNum_ = Increment(sp.iterationNum_)
           /\ r.iterationLearnNum_ = Increment(sp.iterationLearnNum_)

\* C39: compute with learn = false changes no learned state and advances
\* iterationNum only; with learn = true both counters advance, and
\* iterationLearnNum <= iterationNum always.
C39_LearnNumNeverAhead ==
  /\ InferenceLearnsNothing
  /\ ~sp.failed => sp.iterationLearnNum_ <= sp.iterationNum_

\* C39 as the code has it: compute keeps iterationLearnNum <= iterationNum
\* when it holds before the call and iterationNum is not at its greatest
\* value, from which it goes to 0.
C39_LearnNumNotOvertaking ==
  /\ InferenceLearnsNothing
  /\ (ScheduleReady /\ sp.iterationLearnNum_ <= sp.iterationNum_
        /\ sp.iterationNum_ # UIntMax) =>
       \A input \in SUBSET Inputs, learn \in BOOLEAN :
         \A r \in compute(Pooler, input, learn) :
           r.iterationLearnNum_ <= r.iterationNum_

\* C39 witness: after a learning step, with learned state that differs from
\* the initial one, a compute without learning returns active columns.
C39_Witness ==
  /\ ScheduleReady
  /\ sp.iterationLearnNum_ = UInt(1)
  /\ \E c \in Columns : sp.activeDutyCycles_[c] # Whole(0)
  /\ \E input \in SUBSET Inputs : \E r \in compute(Pooler, input, FALSE) :
       r.active # <<>> /\ r.boostedOverlaps_ # sp.boostedOverlaps_

\* setIterationNum has put iterationNum below iterationLearnNum.
C39_LearnNumAhead == ~sp.failed /\ sp.iterationLearnNum_ > sp.iterationNum_

\* ------------------------------------------------ the synaptic structure

\* The synaptic structure of a Connections instance: the segments of every
\* cell, the synapses of every segment with the cell it is on, the segment
\* and the presynaptic cell of every synapse, and the two free-lists.
Structure(s) ==
  [ cells |-> s.cells_,
    segments |-> [h \in 1..Len(s.segments_) |->
                    <<s.segments_[h].cell, s.segments_[h].synapses>>],
    synapses |-> [y \in 1..Len(s.synapses_) |->
                    <<s.synapses_[y].segment, s.synapses_[y].presynapticCell>>],
    destroyedSegments |-> s.destroyedSegments_,
    destroyedSynapses |-> s.destroyedSynapses_ ]

\* C40: after initialize and any number of compute calls the Connections
\* instance has exactly numColumns segments, segment c is the only segment
\* of cell c, nothing has been destroyed, and a compute call, learning or
\* not, leaves the synaptic structure (hence every potential pool) as it
\* is; the pools stay within the potential neighbourhoods and have the
\* size initialize gave them.
C40_StructureFixed ==
  ~sp.failed =>
    /\ Len(segments_) = sp.numColumns_
    /\ LiveSegments(State) = Columns
    /\ destroyedSegments_ = <<>> /\ destroyedSynapses_ = <<>>
    /\ \A column \in Columns :
         /\ OwnsOneSegment(column)
         /\ Cardinality(PotentialPool(column)) = Cardinality(SynapsesOf(column))
         /\ PotentialPool(column) \subseteq PotentialNeighborhood(column)
         /\ Cardinality(PotentialPool(column))
              = numPotential_(Cardinality(PotentialNeighborhood(column)), sp.potentialPct_)
    /\ \A input \in ComputeInputs \cup {Inputs}, learn \in BOOLEAN :
         \A r \in compute(Pooler, input, learn) :
           Structure(r.connections_) = Structure(State)

\* C40 witness: after two learning steps a permanence has changed to 0 and
\* another to 1, on segments that still have their synapses.
C40_Witness ==
  /\ ~sp.failed
  /\ sp.iterationLearnNum_ = UInt(2)
  /\ \E y \in LiveSynapses(State) : synapses_[y].permanence = minPermanence
  /\ \E y \in LiveSynapses(State) : synapses_[y].permanence = maxPermanence
  /\ \A column \in Columns : SynapsesOf(column) # {}

\* ================================================================ ValueMap
\* A Value is a node of a tree: Empty, a Scalar, a Sequence or a Map. A
\* container keeps its children in order; every child carries the key and
\* the index under which its parent holds it (the key of a sequence element
\* is its index in decimal). The exploration keeps to a root map whose
\* children are scalars or sequences of scalars.

MaxEntries == 2
MaxElements == 3
Keys == {"a", "b", "c"}
Scalars == {1, 2}

\* std::to_string(index) for the indices in use.
IndexKey(index) == <<"0", "1", "2", "3", "4">>[index + 1]

ScalarNode(v) == [type |-> "Scalar", value |-> v, children |-> <<>>]
Child(key, index, node) == [key |-> key, index |-> index, node |-> node]

\* Value::size, Value::isEmpty, Value::contains(key).
size(node) == Len(node.children)
isEmpty(node) == size(node) = 0 /\ node.type # "Scalar"
contains(node, key) == \E i \in 1..size(node) : node.children[i].key = key

\* The position of the child with this key (0 when there is none: the
\* subscript returns a node that is not in the tree), and whether an access
\* by key or by index finds a node of the tree.
Position(node, key) ==
  IF contains(node, key)
    THEN CHOOSE i \in 1..size(node) : node.children[i].key = key
    ELSE 0
FoundKey(node, key) == Position(node, key) # 0
FoundIndex(node, index) == index < size(node)

\* A variant of remove_ that leaves the later children under their old
\* index and key.
removeWithoutShift_(node, position) ==
  [node EXCEPT !.children =
     [i \in 1..(size(node) - 1) |->
        IF i < position THEN node.children[i] ELSE node.children[i + 1]]]

\* Value::remove on the child at a position (index position - 1) of a
\* container: the child leaves the list and the later children move down,
\* the elements of a sequence taking the key of their new index.
remove_(node, position) ==
  [node EXCEPT !.children =
     [i \in 1..(size(node) - 1) |->
        IF i < position THEN node.children[i]
        ELSE Child(IF node.type = "Sequence" THEN IndexKey(i - 1)
                   ELSE node.children[i + 1].key,
                   i - 1, node.children[i + 1].node)]]

\* Value::remove on the root: the tree becomes Empty.
removeAll_(node) == NewValueMap

\* Value::check: every child is held under its own index and key, the keys
\* of a container differ, and the children are consistent themselves.
RECURSIVE check(_)
check(node) ==
  /\ node.type = "Scalar" => node.children = <<>>
  /\ \A i \in 1..size(node) :
       /\ node.children[i].index = i - 1
       /\ node.type = "Sequence" => node.children[i].key = IndexKey(i - 1)
       /\ check(node.children[i].node)
  /\ \A i \in 1..size(node), j \in 1..size(node) :
       i # j => node.children[i].key # node.children[j].key

\* node[index] = v: assigns to the element at the index, appends when the
\* index is the size of the sequence (an Empty node becomes a sequence),
\* and throws beyond it, on a map without such a child and on a scalar.
assignIndex_(node, index, v) ==
  IF index < size(node)
    THEN [ok |-> TRUE, node |-> [node EXCEPT !.children[index + 1].node = ScalarNode(v)]]
  ELSE IF index = size(node) /\ node.type \in {"Sequence", "Empty"}
    THEN [ok |-> TRUE,
          node |-> [type |-> "Sequence", value |-> 0,
                    children |-> Append(node.children,
                                        Child(IndexKey(index), index, ScalarNode(v)))]]
  ELSE [ok |-> FALSE, node |-> node]

\* node[key] = child: assigns to the child with the key or adds it to the
\* map (an Empty node becomes a map); throws on a sequence and a scalar.
assignKey_(node, key, child) ==
  IF node.type \notin {"Map", "Empty"} THEN [ok |-> FALSE, node |-> node]
  ELSE IF FoundKey(node, key)
    THEN [ok |-> TRUE, node |-> [node EXCEPT !.children[Position(node, key)].node = child]]
  ELSE [ok |-> TRUE,
        node |-> [type |-> "Map", value |-> 0,
                  children |-> Append(node.children, Child(key, size(node), child))]]

\* vm[key][index] = v; vm[key] is Empty when the map has no such child.
assignElement_(node, key, index, v) ==
  LET held == IF FoundKey(node, key) THEN node.children[Position(node, key)].node
              ELSE NewValueMap
      assigned == assignIndex_(held, index, v)
  IN IF held.type = "Scalar" \/ ~assigned.ok THEN [ok |-> FALSE, node |-> node]
     ELSE assignKey_(node, key, assigned.node)

\* ------------------------------------------------------------ the machine
SetValue(r) ==
  /\ vm' = r
  /\ UNCHANGED <<instanceVars, events, failed, sp, tm>>

WithinValue(node) ==
  /\ size(node) <= MaxEntries
  /\ \A i \in 1..size(node) : size(node.children[i].node) <= MaxElements

AssignKey ==
  \E key \in Keys, v \in Scalars :
    LET r == assignKey_(vm, key, ScalarNode(v))
    IN r.ok /\ WithinValue(r.node) /\ SetValue(r.node)

AssignElement ==
  \E key \in Keys, index \in 0..MaxElements, v \in Scalars :
    LET r == assignElement_(vm, key, index, v)
    IN r.ok /\ WithinValue(r.node) /\ SetValue(r.node)

RemoveKey ==
  \E key \in Keys : FoundKey(vm, key) /\ SetValue(remove_(vm, Position(vm, key)))

RemoveIndex ==
  \E index \in 0..MaxEntries : FoundIndex(vm, index) /\ SetValue(remove_(vm, index + 1))

RemoveElement ==
  \E key \in Keys, index \in 0..MaxElements :
    /\ FoundKey(vm, key)
    /\ FoundIndex(vm.children[Position(vm, key)].node, index)
    /\ SetValue([vm EXCEPT !.children[Position(vm, key)].node = remove_(@, index + 1)])

RemoveAll == vm # NewValueMap /\ SetValue(removeAll_(vm))

InitValue == \E t \in ThresholdInputs : InitConnections(NumCells, t, FALSE, {}, FALSE)

NextValue ==
  \/ AssignKey
  \/ AssignElement
  \/ RemoveKey
  \/ RemoveIndex
  \/ RemoveElement
  \/ RemoveAll

SpecValue == InitValue /\ [][NextValue]_vars

\* ------------------------------------------------------------ properties

\* The children of a container as <<key, value>> pairs, in order, a
\* sequence element without its key.
Held(node) ==
  [i \in 1..size(node) |->
     <<IF node.type = "Sequence" THEN "" ELSE node.children[i].key,
       node.children[i].node>>]
\* The sequence q without its element at a position.
Without(q, position) ==
  [i \in 1..(Len(q) - 1) |-> IF i < position THEN q[i] ELSE q[i + 1]]

\* The containers of the tree with their paths: the root, and the
\* sequences it holds.
Containers ==
  {<<0, vm>>} \cup
  {<<i, vm.children[i].node>> : i \in {j \in 1..size(vm) : vm.children[j].node.type = "Sequence"}}
\* The tree with the container at a path replaced.
Replaced(path, node) ==
  IF path = 0 THEN node ELSE [vm EXCEPT !.children[path].node = node]

\* C34: removing an element of a container (a map entry, by key or by
\* index, or a sequence element by index) leaves the container with one
\* element less, the others in their order and one index lower after the
\* removed one; the tree stays consistent; the removed key and the former
\* last index are no longer found; removing the only element leaves the
\* container empty. Assigning at the index equal to the size of a sequence
\* appends the value.
C34_RemoveShiftsDown ==
  /\ check(vm)
  /\ \A c \in Containers :
       /\ \A position \in 1..size(c[2]) :
            LET r == remove_(c[2], position)
            IN /\ size(r) = size(c[2]) - 1
               /\ Held(r) = Without(Held(c[2]), position)
               /\ \A i \in 1..size(r) : r.children[i].index = i - 1
               /\ check(Replaced(c[1], r))
               /\ c[2].type = "Map" => ~FoundKey(r, c[2].children[position].key)
               /\ ~FoundIndex(r, size(c[2]) - 1)
               /\ size(c[2]) = 1 => isEmpty(r)
       /\ c[2].type = "Sequence" =>
            \A v \in Scalars :
              LET a == assignIndex_(c[2], size(c[2]), v)
              IN /\ a.ok
                 /\ size(a.node) = size(c[2]) + 1
                 /\ Held(a.node) = Append(Held(c[2]), <<"", ScalarNode(v)>>)
                 /\ check(Replaced(c[1], a.node))
                 /\ ~assignIndex_(c[2], size(c[2]) + 1, v).ok

\* C34 witness: as in the test, a map of a scalar and a sequence of three
\* elements whose first element was removed: the sequence is now the first
\* child, and its element at index 0 is the former element at index 1.
C34_Witness ==
  /\ size(vm) = 2
  /\ vm.children[1].node.type = "Scalar"
  /\ vm.children[2].node.type = "Sequence"
  /\ size(vm.children[2].node) = 3
  /\ vm.children[2].node.children[2].node # vm.children[2].node.children[1].node
  /\ LET r == remove_(vm, 1)
         q == remove_(r.children[1].node, 1)
     IN /\ r.children[1].key = vm.children[2].key
        /\ q.children[1].node = vm.children[2].node.children[2].node
        /\ q.children[1].key = "0"

\* ========================================================== TemporalMemory
\* A TemporalMemory is a record t of its own fields with the Connections
\* instance it owns in the field `connections`; the variable tm holds the
\* own fields and the Connections variables hold t.connections. The cells
\* of column c are (c - 1) * cellsPerColumn + 1 .. c * cellsPerColumn; the
\* external predictive input e is the presynaptic cell numberOfCells + e.
\* activateCells returns the set of instances the random choices can leave.

NumTMColumns == 2
CellsPerColumn == 2
ExternalInputs == 1
MaxSteps == 2

numberOfCells(t) == t.numColumns_ * t.cellsPerColumn_
columnForCell(t, cell) == ((cell - 1) \div t.cellsPerColumn_) + 1
cellsForColumn(t, column) ==
  ((column - 1) * t.cellsPerColumn_ + 1)..(column * t.cellsPerColumn_)

\* TemporalMemory::initialize.
NewTemporalMemory(cfg) ==
  [ failed |-> FALSE,
    numColumns_ |-> cfg.numColumns,
    cellsPerColumn_ |-> cfg.cellsPerColumn,
    activationThreshold_ |-> cfg.activationThreshold,
    minThreshold_ |-> cfg.minThreshold,
    initialPermanence_ |-> cfg.initialPermanence,
    connectedPermanence_ |-> cfg.connectedPermanence,
    maxNewSynapseCount_ |-> cfg.maxNewSynapseCount,
    permanenceIncrement_ |-> cfg.permanenceIncrement,
    permanenceDecrement_ |-> cfg.permanenceDecrement,
    predictedSegmentDecrement_ |-> cfg.predictedSegmentDecrement,
    maxSegmentsPerCell_ |-> cfg.maxSegmentsPerCell,
    maxSynapsesPerSegment_ |-> cfg.maxSynapsesPerSegment,
    externalPredictiveInputs_ |-> cfg.externalPredictiveInputs,
    connections |-> NewConnections(cfg.numColumns * cfg.cellsPerColumn,
                                   cfg.connectedPermanence),
    activeCells_ |-> <<>>,
    winnerCells_ |-> <<>>,
    activeSegments_ |-> <<>>,
    matchingSegments_ |-> <<>>,
    numActiveConnectedSynapsesForSegment_ |-> <<>>,
    numActivePotentialSynapsesForSegment_ |-> <<>>,
    segmentsValid_ |-> FALSE,
    anomaly_ |-> Whole(0),
    \* the number of activateCells calls so far
    steps |-> 0 ]

\* The segments of a set in ascending order of (cell, handle).
RECURSIVE sortSegments_(_, _)
sortSegments_(c, S) ==
  IF S = {} THEN <<>>
  ELSE LET first ==
             CHOOSE a \in S : \A b \in S \ {a} :
               \/ c.segments_[a].cell < c.segments_[b].cell
               \/ (c.segments_[a].cell = c.segments_[b].cell /\ a < b)
       IN <<first>> \o sortSegments_(c, S \ {first})

\* A variant of activateDendrites without the guard on segmentsValid_.
activateDendritesAgain_(t, learn, extActive, extWinners) ==
  LET offset(S) == Ascending({numberOfCells(t) + e : e \in S})
      active == t.activeCells_ \o offset(extActive)
      r == computeActivityPotential(t.connections, active)
      over(counts, threshold) ==
        sortSegments_(r.after, {h \in LiveSegments(r.after) : counts[h] >= threshold})
  IN [t EXCEPT
        !.connections = r.after,
        !.activeCells_ = active,
        !.winnerCells_ = @ \o offset(extWinners),
        !.numActiveConnectedSynapsesForSegment_ = r.ret,
        !.numActivePotentialSynapsesForSegment_ = r.numActivePotentialSynapsesForSegment,
        !.activeSegments_ = over(r.ret, t.activationThreshold_),
        !.matchingSegments_ =
          over(r.numActivePotentialSynapsesForSegment, t.minThreshold_),
        !.segmentsValid_ = TRUE]

\* TemporalMemory::activateDendrites: in a time step only the first call
\* has an effect. It adds the external inputs to the active and winner
\* cells, counts the active synapses of every segment and keeps the active
\* and the matching segments.
activateDendrites(t, learn, extActive, extWinners) ==
  IF t.segmentsValid_ THEN t
  ELSE LET offset(S) == Ascending({numberOfCells(t) + e : e \in S})
           active == t.activeCells_ \o offset(extActive)
           r == computeActivityPotential(t.connections, active)
           over(counts, threshold) ==
             sortSegments_(r.after, {h \in LiveSegments(r.after) : counts[h] >= threshold})
       IN [t EXCEPT
             !.connections = r.after,
             !.activeCells_ = active,
             !.winnerCells_ = @ \o offset(extWinners),
             !.numActiveConnectedSynapsesForSegment_ = r.ret,
             !.numActivePotentialSynapsesForSegment_ = r.numActivePotentialSynapsesForSegment,
             !.activeSegments_ = over(r.ret, t.activationThreshold_),
             !.matchingSegments_ =
               over(r.numActivePotentialSynapsesForSegment, t.minThreshold_),
             !.segmentsValid_ = TRUE]

\* TemporalMemory::getPredictiveCells: the cells of the active segments.
getPredictiveCells(t) ==
  {t.connections.segments_[t.activeSegments_[i]].cell : i \in 1..Len(t.activeSegments_)}

\* The segments of a list that are on cells of the column.
segmentsOfColumn_(t, list, column) ==
  SelectSeq(list, LAMBDA h : columnForCell(t, t.connections.segments_[h].cell) = column)

\* The winner cells a segment has no synapse from, in their order.
growthCandidates_(c, segment, prevWinnerCells) ==
  SelectSeq(prevWinnerCells, LAMBDA cell : existingSynapse_(c, segment, cell) = 0)

\* Grows up to nDesired synapses on the segment from the previous winner
\* cells that are not presynaptic on it yet.
growSynapses_(t, c, segment, nDesired, prevWinnerCells) ==
  LET candidates == growthCandidates_(c, segment, prevWinnerCells)
  IN IF nDesired <= 0 \/ candidates = <<>> THEN {c}
     ELSE {growSynapses(c, segment, candidates, t.initialPermanence_, shuffled,
                        nDesired, t.maxSynapsesPerSegment_) :
             shuffled \in Shuffles_(candidates, nDesired)}

\* Learning on a segment: reinforce (the synapses from previously active
\* cells gain permanenceIncrement, the others lose permanenceDecrement),
\* then grow up to maxNewSynapseCount - numActivePotential synapses.
adaptSegment_(t, c, segment, prevActiveCells, prevWinnerCells) ==
  growSynapses_(t,
                adaptSegment(c, segment, SeqToSet(prevActiveCells),
                             t.permanenceIncrement_, t.permanenceDecrement_, FALSE, 0),
                segment,
                t.maxNewSynapseCount_ - t.numActivePotentialSynapsesForSegment_[segment],
                prevWinnerCells)

\* adaptSegment_ on the segments of a list from index i on, for every
\* instance of C.
RECURSIVE learnOnSegments_(_, _, _, _, _, _)
learnOnSegments_(t, C, segs, i, prevActiveCells, prevWinnerCells) ==
  IF i > Len(segs) THEN C
  ELSE learnOnSegments_(
         t,
         UNION {adaptSegment_(t, c, segs[i], prevActiveCells, prevWinnerCells) : c \in C},
         segs, i + 1, prevActiveCells, prevWinnerCells)

\* A predicted column: the cells with an active segment become active and
\* winners; when learning, every active segment of the column learns.
activatePredictedColumn_(t, c, column, learn, prevActiveCells, prevWinnerCells) ==
  LET segs == segmentsOfColumn_(t, t.activeSegments_, column)
      cells == {t.connections.segments_[segs[i]].cell : i \in 1..Len(segs)}
  IN {[c |-> d, active |-> cells, winners |-> cells] :
        d \in IF learn
                THEN learnOnSegments_(t, {c}, segs, 1, prevActiveCells, prevWinnerCells)
                ELSE {c}}

\* The best matching segment of a list: the most active potential synapses,
\* the first of the list among equals.
bestMatchingSegment_(t, segs) ==
  segs[CHOOSE i \in 1..Len(segs) :
         \A j \in 1..Len(segs) :
           LET n(k) == t.numActivePotentialSynapsesForSegment_[segs[k]]
           IN n(i) > n(j) \/ (n(i) = n(j) /\ i <= j)]

\* The cells of the column with the fewest segments; one of them is drawn.
leastUsedCells_(t, c, column) ==
  {cell \in cellsForColumn(t, column) :
     \A other \in cellsForColumn(t, column) : numSegments(c, cell) <= numSegments(c, other)}

\* A variant of burstColumn_ in which only the winner cell becomes active.
burstWinnerOnly_(t, c, column, learn, prevActiveCells, prevWinnerCells) ==
  {[c |-> c, active |-> {winner}, winners |-> {winner}] :
     winner \in leastUsedCells_(t, c, column)}

\* A column without an active segment bursts: every cell becomes active;
\* the winner is the cell of the best matching segment, which learns, or a
\* least used cell, on which a segment is created and grown when there are
\* previous winner cells.
burstColumn_(t, c, column, learn, prevActiveCells, prevWinnerCells) ==
  LET segs == segmentsOfColumn_(t, t.matchingSegments_, column)
      cells == cellsForColumn(t, column)
      outcome(d, winner) == [c |-> d, active |-> cells, winners |-> {winner}]
      matched ==
        LET best == bestMatchingSegment_(t, segs)
        IN {outcome(d, t.connections.segments_[best].cell) :
              d \in IF learn
                      THEN adaptSegment_(t, c, best, prevActiveCells, prevWinnerCells)
                      ELSE {c}}
      grown(winner) ==
        IF learn /\ prevWinnerCells # <<>>
          THEN LET created == createSegment(c, winner, t.maxSegmentsPerCell_)
               IN growSynapses_(t, created, created.ret, t.maxNewSynapseCount_,
                                prevWinnerCells)
          ELSE {c}
  IN IF segs # <<>> THEN matched
     ELSE UNION {{outcome(d, winner) : d \in grown(winner)} :
                   winner \in leastUsedCells_(t, c, column)}

\* The active columns from index i on, for every outcome so far.
RECURSIVE activateColumns_(_, _, _, _, _, _, _)
activateColumns_(t, outcomes, columns, i, learn, prevActiveCells, prevWinnerCells) ==
  IF i > Len(columns) THEN outcomes
  ELSE activateColumns_(
         t,
         UNION {{[c |-> n.c, active |-> o.active \cup n.active,
                  winners |-> o.winners \cup n.winners] :
                   n \in IF segmentsOfColumn_(t, t.activeSegments_, columns[i]) # <<>>
                           THEN activatePredictedColumn_(t, o.c, columns[i], learn,
                                                         prevActiveCells, prevWinnerCells)
                           ELSE burstColumn_(t, o.c, columns[i], learn,
                                             prevActiveCells, prevWinnerCells)} :
                o \in outcomes},
         columns, i + 1, learn, prevActiveCells, prevWinnerCells)

\* A variant of punishDecrement_ that punishes by permanenceDecrement.
punishByDecrement_(t) == t.permanenceDecrement_

\* The amount by which the matching segments of the columns that are not
\* active are punished.
punishDecrement_(t) == t.predictedSegmentDecrement_

\* Punishment of a segment: the connected synapses from previously active
\* cells, from index i of the segment's list on, lose the decrement.
RECURSIVE punishSegment_(_, _, _, _, _)
punishSegment_(c, syns, i, prevActiveCells, decrement) ==
  IF i > Len(syns) THEN c
  ELSE LET data == c.synapses_[syns[i]]
       IN punishSegment_(
            IF /\ data.presynapticCell \in SeqToSet(prevActiveCells)
               /\ data.permanence >= c.connectedThreshold_
              THEN updateSynapsePermanence(c, syns[i], data.permanence - decrement)
              ELSE c,
            syns, i + 1, prevActiveCells, decrement)

\* The matching segments of the columns that are not active, from index i
\* on, are punished.
RECURSIVE punishPredictedColumns_(_, _, _, _, _)
punishPredictedColumns_(t, c, activeColumns, i, prevActiveCells) ==
  IF i > Len(t.matchingSegments_) THEN c
  ELSE LET segment == t.matchingSegments_[i]
           column == columnForCell(t, t.connections.segments_[segment].cell)
       IN punishPredictedColumns_(
            t,
            IF column \notin activeColumns
              THEN punishSegment_(c, synapsesForSegment(c, segment), 1,
                                  prevActiveCells, punishDecrement_(t))
              ELSE c,
            activeColumns, i + 1, prevActiveCells)

\* TemporalMemory::activateCells: the instances it can leave.
activateCells(t, activeColumns, learn) ==
  LET prevActiveCells == t.activeCells_
      prevWinnerCells == t.winnerCells_
      activated ==
        activateColumns_(t, {[c |-> t.connections, active |-> {}, winners |-> {}]},
                         Ascending(activeColumns), 1, learn,
                         prevActiveCells, prevWinnerCells)
      punished(c) ==
        IF learn /\ punishDecrement_(t) > 0
          THEN punishPredictedColumns_(t, c, activeColumns, 1, prevActiveCells)
          ELSE c
  IN {[t EXCEPT !.connections = [punished(o.c) EXCEPT !.ret = 0, !.events = <<>>],
                !.failed = o.c.failed,
                !.activeCells_ = Ascending(o.active),
                !.winnerCells_ = Ascending(o.winners),
                !.segmentsValid_ = FALSE,
                !.steps = @ + 1] :
        o \in activated}

\* The raw anomaly: the share of the active columns without an active
\* segment.
anomaly_(t, activeColumns) ==
  IF activeColumns = {} THEN Whole(0)
  ELSE Frac(Cardinality({column \in activeColumns :
                           segmentsOfColumn_(t, t.activeSegments_, column) = <<>>}),
            Cardinality(activeColumns))

\* TemporalMemory::compute: activateDendrites, the anomaly, activateCells.
computeMemory(t, activeColumns, learn, extActive, extWinners) ==
  LET predicted == activateDendrites(t, learn, extActive, extWinners)
  IN activateCells([predicted EXCEPT !.anomaly_ = anomaly_(predicted, activeColumns)],
                   activeColumns, learn)

\* TemporalMemory::reset.
resetMemory(t) ==
  [t EXCEPT !.activeCells_ = <<>>, !.winnerCells_ = <<>>,
            !.activeSegments_ = <<>>, !.matchingSegments_ = <<>>,
            !.segmentsValid_ = FALSE, !.anomaly_ = Whole(0)]

\* ------------------------------------------------------------ the machine
Memory ==
  [f \in (DOMAIN tm) \cup {"connections"} |->
     IF f = "connections" THEN State ELSE tm[f]]

SetMemory(r) ==
  /\ SetConnections(r.connections)
  /\ tm' = [f \in (DOMAIN r) \ {"connections"} |-> r[f]]
  /\ sp' = sp /\ vm' = vm

TMColumns == 1..NumTMColumns
ExternalSets == SUBSET (1..ExternalInputs)

MemoryConfiguration(predictedSegmentDecrement) ==
  [ numColumns |-> NumTMColumns,
    cellsPerColumn |-> CellsPerColumn,
    activationThreshold |-> 1,
    minThreshold |-> 1,
    initialPermanence |-> 5000,
    connectedPermanence |-> 5000,
    maxNewSynapseCount |-> 2,
    permanenceIncrement |-> 5000,
    permanenceDecrement |-> 5000,
    predictedSegmentDecrement |-> predictedSegmentDecrement,
    maxSegmentsPerCell |-> 1,
    maxSynapsesPerSegment |-> 2,
    externalPredictiveInputs |-> ExternalInputs ]

InitMemory ==
  \E predictedSegmentDecrement \in {0, 5000} :
    LET r == NewTemporalMemory(MemoryConfiguration(predictedSegmentDecrement))
    IN /\ tm = [f \in (DOMAIN r) \ {"connections"} |-> r[f]]
       /\ sp = NoSpatialPooler
       /\ vm = NewValueMap
       /\ cells_ = r.connections.cells_
       /\ segments_ = r.connections.segments_
       /\ destroyedSegments_ = r.connections.destroyedSegments_
       /\ synapses_ = r.connections.synapses_
       /\ destroyedSynapses_ = r.connections.destroyedSynapses_
       /\ potentialSynapsesForPresynapticCell_ = r.connections.potentialSynapsesForPresynapticCell_
       /\ potentialSegmentsForPresynapticCell_ = r.connections.potentialSegmentsForPresynapticCell_
       /\ connectedSynapsesForPresynapticCell_ = r.connections.connectedSynapsesForPresynapticCell_
       /\ connectedSegmentsForPresynapticCell_ = r.connections.connectedSegmentsForPresynapticCell_
       /\ connectedThreshold_ = r.connections.connectedThreshold_
       /\ timeseries_ = r.connections.timeseries_
       /\ previousUpdates_ = r.connections.previousUpdates_
       /\ currentUpdates_ = r.connections.currentUpdates_
       /\ prunedSyns_ = r.connections.prunedSyns_
       /\ prunedSegs_ = r.connections.prunedSegs_
       /\ eventHandlers_ = r.connections.eventHandlers_
       /\ assertionsOn = r.connections.assertionsOn
       /\ events = r.connections.events
       /\ failed = r.connections.failed

\* The exploration follows a behaviour for MaxSteps time steps.
MemoryReady == ~tm.failed /\ tm.steps < MaxSteps

ActivateDendrites ==
  MemoryReady /\ \E learn \in BOOLEAN, extActive \in ExternalSets :
                   \E extWinners \in SUBSET extActive :
                     SetMemory(activateDendrites(Memory, learn, extActive, extWinners))

\* activateCells is called after activateDendrites.
ActivateCells ==
  MemoryReady /\ tm.segmentsValid_
              /\ \E activeColumns \in SUBSET TMColumns, learn \in BOOLEAN :
                   \E r \in activateCells(Memory, activeColumns, learn) : SetMemory(r)

ComputeMemory ==
  MemoryReady /\ \E activeColumns \in SUBSET TMColumns, learn \in BOOLEAN,
                    extActive \in ExternalSets :
                   \E extWinners \in SUBSET extActive :
                     \E r \in computeMemory(Memory, activeColumns, learn,
                                            extActive, extWinners) : SetMemory(r)

ResetMemory == MemoryReady /\ SetMemory(resetMemory(Memory))

NextMemory ==
  \/ ActivateDendrites
  \/ ActivateCells
  \/ ComputeMemory
  \/ ResetMemory

SpecMemory == InitMemory /\ [][NextMemory]_vars

\* ---------------------------------------------------------------- C31
\* The segments of an instance with at least `threshold` synapses of
\* permanence at least `least` from its active cells.
SegmentsOver(t, least, threshold) ==
  {h \in LiveSegments(t.connections) :
     Cardinality({syn \in SeqToSet(synapsesForSegment(t.connections, h)) :
                    /\ t.connections.synapses_[syn].presynapticCell \in SeqToSet(t.activeCells_)
                    /\ t.connections.synapses_[syn].permanence >= least}) >= threshold}

DendriteArguments ==
  {[learn |-> learn, extActive |-> extActive, extWinners |-> extWinners] :
     learn \in BOOLEAN, extActive \in ExternalSets, extWinners \in ExternalSets}

\* The instances a time step can end in: after activateCells, which follows
\* activateDendrites, and after reset.
StepEnds ==
  {resetMemory(Memory)}
    \cup (IF tm.segmentsValid_
            THEN UNION {activateCells(Memory, activeColumns, learn) :
                          activeColumns \in SUBSET TMColumns, learn \in BOOLEAN}
            ELSE {})

\* C31: within a time step only the first activateDendrites call has an
\* effect. Once activateDendrites has run, another call with any arguments
\* leaves the whole instance, its active segments, matching segments,
\* predictive cells and Connections, as it is. activateCells and reset re-arm
\* the guard: the first call after them computes the active and the
\* matching segments from the active cells and the external inputs given.
C31_FirstDendritesCallOnly ==
  /\ tm.segmentsValid_ =>
       \A a \in DendriteArguments :
         activateDendrites(Memory, a.learn, a.extActive, a.extWinners) = Memory
  /\ \A r \in StepEnds :
       /\ ~r.segmentsValid_
       /\ \A a \in DendriteArguments :
            LET d == activateDendrites(r, a.learn, a.extActive, a.extWinners)
            IN /\ d.segmentsValid_
               /\ SeqToSet(d.activeCells_) =
                    SeqToSet(r.activeCells_) \cup {numberOfCells(r) + e : e \in a.extActive}
               /\ SeqToSet(d.activeSegments_) =
                    SegmentsOver(d, d.connectedPermanence_, d.activationThreshold_)
               /\ SeqToSet(d.matchingSegments_) = SegmentsOver(d, 0, d.minThreshold_)
               /\ getPredictiveCells(d) =
                    {d.connections.segments_[h].cell :
                       h \in SegmentsOver(d, d.connectedPermanence_, d.activationThreshold_)}

\* activateDendrites has run in this step without external input and left no
\* active segment, and a computation with the external input would find one.
C31_Witness ==
  /\ tm.segmentsValid_
  /\ tm.steps > 0
  /\ tm.activeSegments_ = <<>>
  /\ activateDendritesAgain_(Memory, TRUE, {1}, {}).activeSegments_ # <<>>
  /\ activateDendrites(Memory, TRUE, {1}, {}).activeSegments_ = <<>>

\* ---------------------------------------------------------------- C32
ComputeArguments ==
  {[activeColumns |-> activeColumns, learn |-> a.learn,
    extActive |-> a.extActive, extWinners |-> a.extWinners] :
     activeColumns \in (SUBSET TMColumns) \ {{}}, a \in DendriteArguments}

\* C32: on a TemporalMemory without segments, compute on a non-empty set of
\* active columns makes exactly the cells of the active columns active,
\* makes exactly one cell of each active column a winner and no other cell,
\* finds no predictive cells and reports the raw anomaly 1.
C32_FirstStepBursts ==
  LiveSegments(State) = {} =>
    \A a \in ComputeArguments :
      \A r \in computeMemory(Memory, a.activeColumns, a.learn, a.extActive, a.extWinners) :
        /\ SeqToSet(r.activeCells_) =
             UNION {cellsForColumn(r, column) : column \in a.activeColumns}
        /\ \A column \in a.activeColumns :
             Cardinality(SeqToSet(r.winnerCells_) \cap cellsForColumn(r, column)) = 1
        /\ Len(r.winnerCells_) = Cardinality(a.activeColumns)
        /\ \A i \in 1..Len(r.winnerCells_) :
             columnForCell(r, r.winnerCells_[i]) \in a.activeColumns
        /\ getPredictiveCells(r) = {}
        /\ r.anomaly_ = Whole(1)

\* After a step an instance that still has no segments has both columns
\* bursting: four active cells, two winners, anomaly 1.
C32_Witness ==
  /\ tm.steps > 0
  /\ LiveSegments(State) = {}
  /\ Len(tm.activeCells_) = NumTMColumns * CellsPerColumn
  /\ Len(tm.winnerCells_) = NumTMColumns
  /\ tm.anomaly_ = Whole(1)
  /\ tm.activeSegments_ = <<>>

\* ---------------------------------------------------------------- C33
\* The synapses of the segments on cells of the columns that are not
\* active are, in the instance r left by a step from t, still there, on
\* their segment, from their presynaptic cell, with no lower permanence.
InactiveColumnsKept(t, r, activeColumns) ==
  \A h \in LiveSegments(t.connections) :
    columnForCell(t, t.connections.segments_[h].cell) \notin activeColumns =>
      /\ h \in LiveSegments(r.connections)
      /\ r.connections.segments_[h].cell = t.connections.segments_[h].cell
      /\ \A syn \in SeqToSet(synapsesForSegment(t.connections, h)) :
           /\ syn \in SeqToSet(synapsesForSegment(r.connections, h))
           /\ r.connections.synapses_[syn].presynapticCell =
                t.connections.synapses_[syn].presynapticCell
           /\ r.connections.synapses_[syn].permanence >=
                t.connections.synapses_[syn].permanence

\* C33: with predictedSegmentDecrement = 0 no step of the TemporalMemory,
\* activateCells after activateDendrites or compute, with any active
\* columns, external inputs and learn flag, lowers the permanence of or
\* destroys a synapse of a segment on a cell of a column that is not active
\* in the step.
C33_NoPunishmentAtZero ==
  tm.predictedSegmentDecrement_ = 0 =>
    /\ tm.segmentsValid_ =>
         \A activeColumns \in SUBSET TMColumns, learn \in BOOLEAN :
           \A r \in activateCells(Memory, activeColumns, learn) :
             InactiveColumnsKept(Memory, r, activeColumns)
    /\ \A activeColumns \in SUBSET TMColumns, a \in DendriteArguments :
         \A r \in computeMemory(Memory, activeColumns, a.learn, a.extActive, a.extWinners) :
           InactiveColumnsKept(Memory, r, activeColumns)

\* A learning step with predictedSegmentDecrement = 0 has left a matching
\* segment on a column that was not active, its synapse still connected,
\* and has grown a synapse from a cell of that column on the active column.
C33_Witness ==
  /\ tm.predictedSegmentDecrement_ = 0
  /\ tm.steps = 2
  /\ ~tm.segmentsValid_
  /\ \E i \in 1..Len(tm.matchingSegments_) :
       LET h == tm.matchingSegments_[i]
           column == columnForCell(Memory, segments_[h].cell)
       IN /\ h \in LiveSegments(State)
          /\ \A k \in 1..Len(tm.activeCells_) :
               columnForCell(Memory, tm.activeCells_[k]) # column
          /\ \A syn \in SeqToSet(synapsesForSegment(State, h)) :
               synapses_[syn].permanence >= connectedThreshold_
          /\ \E grown \in LiveSynapses(State) :
               /\ columnForCell(Memory, segments_[synapses_[grown].segment].cell) # column
               /\ synapses_[grown].presynapticCell \in cellsForColumn(Memory, column)
====
